---- MODULE Spec2Model ----
(***************************************************************************)
(* Tiered pricing, license capacity, subscription lifecycle and the        *)
(* invitation-based tenancy model of the carenote backend.                 *)
(*                                                                         *)
(* Time is counted in seconds.  User ids, subscription ids and session ids *)
(* are positive integers, 0 stands for null.                               *)
(***************************************************************************)
EXTENDS Integers, Sequences, FiniteSets, TLC

\* ---------------------------------------------------------------- bounds
MaxCount == 11
MaxUsers == 3
MaxEmails == 3
MaxSessions == 1
MaxNow == 864001
MaxSkew == 1
MaxPeriodEnd == 3456002

\* ------------------------------------------------------------- constants
TrialDays == 10
SecondsPerDay == 86400
DefaultExtendDays == 30
FarFuture == 2000000000
InvitationMaxAgeDays == 7
MaxTrialDays == 365
PlanTrialDays == 15
PlanBillingAmount == 599

NoId == 0
NullDate == -1

\* ------------------------------------------------- config/pricing.js data
\* A tier table with the 5+ monthly price mistyped (503 -> 530).
MonthlyTiersTypo ==
  << [minLicenses |-> 1,  pricePerLicense |-> 559],
     [minLicenses |-> 3,  pricePerLicense |-> 528],
     [minLicenses |-> 5,  pricePerLicense |-> 530],
     [minLicenses |-> 10, pricePerLicense |-> 471] >>

MonthlyTiers ==
  << [minLicenses |-> 1,  pricePerLicense |-> 559],
     [minLicenses |-> 3,  pricePerLicense |-> 528],
     [minLicenses |-> 5,  pricePerLicense |-> 503],
     [minLicenses |-> 10, pricePerLicense |-> 471] >>

\* A yearly table with a steeper 10+ discount (400 -> 380).
YearlyTiersSteep ==
  << [minLicenses |-> 1,  pricePerLicense |-> 475],
     [minLicenses |-> 3,  pricePerLicense |-> 448],
     [minLicenses |-> 5,  pricePerLicense |-> 428],
     [minLicenses |-> 10, pricePerLicense |-> 380] >>

YearlyTiers ==
  << [minLicenses |-> 1,  pricePerLicense |-> 475],
     [minLicenses |-> 3,  pricePerLicense |-> 448],
     [minLicenses |-> 5,  pricePerLicense |-> 428],
     [minLicenses |-> 10, pricePerLicense |-> 400] >>

\* pricingConfig[key]: what the property lookup yields.  "tiers" entries
\* carry a tier list; the other own keys (and inherited ones such as
\* "constructor") are truthy values without a .tiers property; vatIncluded is
\* false and any other key is undefined (both falsy).
pricingConfig(key) ==
  CASE key = "monthly" -> [truthy |-> TRUE,  hasTiers |-> TRUE,  tiers |-> MonthlyTiers]
    [] key = "yearly"  -> [truthy |-> TRUE,  hasTiers |-> TRUE,  tiers |-> YearlyTiers]
    [] key \in {"currency", "vatRate", "trialDays", "features",
                "yearlyFeatures", "constructor"}
                       -> [truthy |-> TRUE,  hasTiers |-> FALSE, tiers |-> << >>]
    [] OTHER           -> [truthy |-> FALSE, hasTiers |-> FALSE, tiers |-> << >>]

\* Array.prototype.reverse
Reverse(s) == [i \in 1..Len(s) |-> s[Len(s) + 1 - i]]

\* Array.prototype.find over a list of tiers: index of the first tier with
\* n >= minLicenses, 0 when there is none.
FindIndex(ts, n) ==
  IF \E i \in 1..Len(ts) : n >= ts[i].minLicenses
  THEN CHOOSE i \in 1..Len(ts) :
         /\ n >= ts[i].minLicenses
         /\ \A j \in 1..(i - 1) : ~(n >= ts[j].minLicenses)
  ELSE 0

NullPrice(kind) ==
  [kind |-> kind, tierMin |-> 0, numLicenses |-> 0, pricePerLicense |-> 0,
   totalPrice |-> 0, interval |-> ""]

\* calculatePrice(numLicenses, interval).  kind is "ok" (an object is
\* returned), "null" (null is returned) or "throw" (a TypeError is thrown:
\* intervalConfig is truthy but has no tiers array to .slice()).
calculatePrice(numLicenses, interval) ==
  LET intervalConfig == pricingConfig(interval) IN
  IF ~intervalConfig.truthy THEN NullPrice("null")
  ELSE IF ~intervalConfig.hasTiers THEN NullPrice("throw")
  ELSE
    LET ts == Reverse(intervalConfig.tiers)
        i  == FindIndex(ts, numLicenses)
    IN IF i = 0 THEN NullPrice("null")
       ELSE [kind |-> "ok", tierMin |-> ts[i].minLicenses,
             numLicenses |-> numLicenses,
             pricePerLicense |-> ts[i].pricePerLicense,
             totalPrice |-> IF interval = "yearly"
                            THEN ts[i].pricePerLicense * numLicenses * 12
                            ELSE ts[i].pricePerLicense * numLicenses,
             interval |-> interval]

getTierLabel(minLicenses) ==
  IF minLicenses >= 10 THEN "10+"
  ELSE IF minLicenses >= 5 THEN "5+"
  ELSE IF minLicenses >= 3 THEN "3+"
  ELSE "1+"

\* getMaxLicensesForTier with the 5+ band ceiling one too low.
getMaxLicensesForTierLow(tierMinLicenses, actualCount) ==
  IF tierMinLicenses >= 10 THEN actualCount
  ELSE IF tierMinLicenses >= 5 THEN 8
  ELSE IF tierMinLicenses >= 3 THEN 4
  ELSE 2

getMaxLicensesForTier(tierMinLicenses, actualCount) ==
  IF tierMinLicenses >= 10 THEN actualCount
  ELSE IF tierMinLicenses >= 5 THEN 9
  ELSE IF tierMinLicenses >= 3 THEN 4
  ELSE 2

\* ------------------------------------------------------------------ state
VARIABLES
  users,     \* User collection: id -> document (exists = FALSE: no document)
  subs,      \* Subscription collection: id -> document
  sessions,  \* Session collection: id -> document
  now,       \* the clock, in seconds
  req,       \* the inviteUser request in flight: its position and locals
  resp,      \* the response of the last completed request
  call,      \* the last direct call of a pure function and its result
  prevCall   \* the call before it

vars == <<users, subs, sessions, now, req, resp, call, prevCall>>

\* Users 1..MaxUsers are created by the handlers; AdminId is the super admin
\* that scripts/seedSuperAdmin.js creates at deployment, AdminSub its
\* subscription.
UserIds == 1..MaxUsers
AdminId == MaxUsers + 1
AllUserIds == UserIds \cup {AdminId}
SubIds == 1..MaxUsers
AdminSub == MaxUsers + 1
AllSubIds == SubIds \cup {AdminSub}
SessionIds == 1..MaxSessions
Emails == 1..MaxEmails
TrialSeconds == TrialDays * SecondsPerDay

Statuses == {"active", "inactive", "expired", "cancelled"}

NoUser ==
  [exists |-> FALSE, email |-> 0, role |-> "user", is_company_admin |-> FALSE,
   can_invite |-> FALSE, invited_by |-> NoId, subscription_id |-> NoId,
   is_active |-> FALSE, email_verified |-> FALSE, invitation_token |-> FALSE,
   workplace |-> "", created_at |-> NullDate, token_issued |-> FALSE,
   password |-> "", verification_token |-> FALSE,
   reset_password_token |-> FALSE, reset_password_expires |-> NullDate,
   id_used |-> FALSE]

\* What is left of a deleted document: only the fact that its id is spent.
DeletedUser == [NoUser EXCEPT !.id_used = TRUE]

NoSub ==
  [exists |-> FALSE, user_id |-> NoId, numLicenses |-> 0, pricePerLicense |-> 0,
   pricing_tier |-> "", billing_amount |-> 0, billing_interval |-> "",
   status |-> "", is_trial |-> FALSE, current_period_start |-> NullDate,
   current_period_end |-> NullDate, cancelled_at |-> NullDate,
   cancelled_by |-> NoId, id_used |-> FALSE]

DeletedSub == [NoSub EXCEPT !.id_used = TRUE]

NoSession == [exists |-> FALSE, user_id |-> NoId, has_template |-> FALSE]

NoInfo ==
  [previousLicenses |-> 0, newLicenses |-> 0, actualUsers |-> 0,
   previousTier |-> "", newTier |-> "", previousPrice |-> 0, newPrice |-> 0,
   priceDifference |-> 0]

IdleReq ==
  [pc |-> "idle", caller |-> NoId, email |-> 0, sub |-> NoId,
   loadedLicenses |-> 0, loadedAmount |-> 0, loadedTier |-> "",
   loadedInterval |-> "", workplace |-> "", userCount |-> 0, newTotal |-> 0,
   subscriptionUpgraded |-> FALSE, upgradeInfo |-> NoInfo, newUser |-> NoId]

\* A response: the operation, the HTTP status, the caller, the subscription
\* and the user it concerned, the license count it was given, whether the
\* tier was recomputed, and inviteUser's subscriptionUpgraded / upgradeInfo.
Response(op, code, caller, sub, user, count, recomputed, upgraded, info) ==
  [op |-> op, code |-> code, caller |-> caller, sub |-> sub, user |-> user,
   count |-> count, recomputed |-> recomputed, subscriptionUpgraded |-> upgraded,
   upgradeInfo |-> info]

Plain(op, code, caller, sub, user) ==
  Response(op, code, caller, sub, user, 0, FALSE, FALSE, NoInfo)

NoResp == Plain("none", 0, NoId, NoId, NoId)

NoCall ==
  [fn |-> "none", n |-> 0, interval |-> "", price |-> NullPrice("null"),
   status |-> "", periodEnd |-> NullDate, at |-> 0, access |-> FALSE]

\* ----------------------------------------------------------- store queries
Existing == {u \in AllUserIds : users[u].exists}

\* User.findOne({ email })
UserByEmail(e) == {u \in Existing : users[u].email = e}

\* The count leaving the owner out.
TenantCountMembersOnly(id) ==
  Cardinality({u \in Existing : users[u].invited_by = id})

\* User.countDocuments({ $or: [{ invited_by: id }, { _id: id }] })
TenantCount(id) ==
  Cardinality({u \in Existing : users[u].invited_by = id \/ u = id})

\* Subscription.findOne({ user_id })
SubsOf(u) == {s \in AllSubIds : subs[s].exists /\ subs[s].user_id = u}

\* ids are never reused: the next id is one past the largest ever handed out
FreeUserIds == {u \in UserIds : ~users[u].id_used}
FreeSubIds == {s \in SubIds : ~subs[s].id_used}
FreeSessionIds == {s \in SessionIds : ~sessions[s].exists}
Min(S) == CHOOSE x \in S : \A y \in S : x <= y

\* --------------------------------------------------------------- middleware
\* authenticate: the bearer token was issued to an existing user
authenticate(u) == u \in Existing /\ users[u].token_issued

requireSuperAdmin(u) == users[u].role = "super_admin"

requireCompanyAdmin(u) ==
  users[u].is_company_admin \/ users[u].role = "super_admin"

\* ------------------------------------------------------------------- clock
\* The clock moves by a second, at most MaxSkew times in a row, or by the
\* length of a trial.
TickSteps == {1, TrialSeconds}

Tick(d) ==
  /\ now + d <= MaxNow
  /\ d = 1 => now % SecondsPerDay < MaxSkew
  /\ now' = now + d
  /\ UNCHANGED <<users, subs, sessions, req, resp, call, prevCall>>

\* ---------------------------------------------------------------- register
\* The subscription document register and createSubscription build.
NewSubscription(owner, pricing, licenseCount, periodEnd) ==
  [exists |-> TRUE, user_id |-> owner,
   numLicenses |-> getMaxLicensesForTier(pricing.tierMin, licenseCount),
   pricePerLicense |-> pricing.pricePerLicense,
   pricing_tier |-> getTierLabel(pricing.tierMin),
   billing_amount |-> pricing.totalPrice,
   billing_interval |-> pricing.interval,
   status |-> "active", is_trial |-> TRUE,
   current_period_start |-> now, current_period_end |-> periodEnd,
   cancelled_at |-> NullDate, cancelled_by |-> NoId, id_used |-> TRUE]

\* POST /api/auth/register.  numLicenses = 0, trialEndDate = NullDate and
\* role = billing_interval = "" stand for fields absent from the body.
register(email, role, numLicenses, trialEndDate, billing_interval) ==
  /\ UNCHANGED <<sessions, now, req, call, prevCall>>
  /\ IF UserByEmail(email) # {}
     THEN /\ resp' = Plain("register", 400, NoId, NoId, NoId)
          /\ UNCHANGED <<users, subs>>
     ELSE IF role = "company_admin"
     THEN \* not in the schema's enum: user.save() fails validation
          /\ resp' = Plain("register", 500, NoId, NoId, NoId)
          /\ UNCHANGED <<users, subs>>
     ELSE
       /\ FreeUserIds # {} /\ FreeSubIds # {}
       /\ LET id == Min(FreeUserIds)
              sid == Min(FreeSubIds)
              licenseCount == IF numLicenses = 0 THEN 1 ELSE numLicenses
              user == [exists |-> TRUE, email |-> email,
                       role |-> IF role = "" THEN "user" ELSE role,
                       is_company_admin |-> TRUE, can_invite |-> FALSE,
                       invited_by |-> NoId, subscription_id |-> NoId,
                       is_active |-> TRUE, email_verified |-> FALSE,
                       invitation_token |-> FALSE, workplace |-> "clinic",
                       created_at |-> now, token_issued |-> FALSE,
                       password |-> "chosen", verification_token |-> TRUE,
                       reset_password_token |-> FALSE,
                       reset_password_expires |-> NullDate,
                       id_used |-> TRUE]
              trialEnd == IF trialEndDate # NullDate THEN trialEndDate
                          ELSE now + TrialSeconds
              billingInterval == IF billing_interval = "" THEN "monthly"
                                 ELSE billing_interval
              pricing == calculatePrice(licenseCount, billingInterval)
          IN IF pricing.kind = "throw"
             THEN /\ users' = [users EXCEPT ![id] = user]
                  /\ subs' = subs
                  /\ resp' = Plain("register", 500, NoId, NoId, id)
             ELSE IF pricing.kind = "null"
             THEN /\ users' = [users EXCEPT ![id] = user]
                  /\ subs' = subs
                  /\ resp' = Plain("register", 400, NoId, NoId, id)
             ELSE /\ subs' = [subs EXCEPT ![sid] =
                               NewSubscription(id, pricing, licenseCount, trialEnd)]
                  /\ users' = [users EXCEPT ![id] =
                               [user EXCEPT !.subscription_id = sid,
                                            !.token_issued = TRUE]]
                  /\ resp' = Response("register", 201, id, sid, id,
                                      licenseCount, TRUE, FALSE, NoInfo)

\* ----------------------------------------------------------- updateProfile
\* PUT /api/auth/profile: user.save() followed, when a company admin changed
\* its workplace, by User.updateMany({ invited_by }, { workplace }).  The two
\* writes are taken together.  workplace = "" stands for a field absent from
\* the body; the other profile fields are not modelled.
updateProfile(caller, workplace) ==
  /\ authenticate(caller)
  /\ UNCHANGED <<subs, sessions, now, req, call, prevCall>>
  /\ LET workplaceChanged ==
           workplace # "" /\ workplace # users[caller].workplace
         sync == workplaceChanged /\ users[caller].is_company_admin
     IN /\ users' =
             [u \in AllUserIds |->
                IF u = caller
                THEN [users[u] EXCEPT !.workplace =
                        IF workplace # "" THEN workplace ELSE @]
                ELSE IF sync /\ users[u].exists /\ users[u].invited_by = caller
                THEN [users[u] EXCEPT !.workplace = workplace]
                ELSE users[u]]
        /\ resp' = Plain("updateProfile", 200, caller, NoId, caller)

\* getClinicData: subscription.numLicenses - invitedUsers.length, for a
\* company admin whose subscription exists
available_licenses(owner) ==
  subs[users[owner].subscription_id].numLicenses - TenantCount(owner)

\* -------------------------------------------------------------- inviteUser
\* POST /api/clinic/invite, one action per await of the handler.
\* Route middleware, then User.findById(invitedBy).populate('subscription_id')
\* and the permission / subscription checks.
inviteLoad(caller, email) ==
  /\ req.pc = "idle"
  /\ authenticate(caller)
  /\ UNCHANGED <<users, subs, sessions, now, call, prevCall>>
  /\ LET sid == users[caller].subscription_id IN
     IF ~requireCompanyAdmin(caller)
     THEN /\ resp' = Plain("inviteUser", 403, caller, NoId, NoId)
          /\ req' = req
     ELSE IF ~users[caller].is_company_admin /\ ~users[caller].can_invite
     THEN /\ resp' = Plain("inviteUser", 403, caller, NoId, NoId)
          /\ req' = req
     ELSE IF sid = NoId \/ ~subs[sid].exists
     THEN /\ resp' = Plain("inviteUser", 404, caller, NoId, NoId)
          /\ req' = req
     ELSE /\ resp' = resp
          /\ req' = [IdleReq EXCEPT !.pc = "findEmail", !.caller = caller,
                        !.email = email, !.sub = sid,
                        !.loadedLicenses = subs[sid].numLicenses,
                        !.loadedAmount = subs[sid].billing_amount,
                        !.loadedTier = subs[sid].pricing_tier,
                        !.loadedInterval = subs[sid].billing_interval,
                        !.workplace = users[caller].workplace]

\* The lookup of the invited email left out: the request goes on to count.
inviteFindEmailSkipped ==
  /\ req.pc = "findEmail"
  /\ UNCHANGED <<users, subs, sessions, now, call, prevCall>>
  /\ resp' = resp
  /\ req' = [req EXCEPT !.pc = "count"]

\* User.findOne({ email })
inviteFindEmail ==
  /\ req.pc = "findEmail"
  /\ UNCHANGED <<users, subs, sessions, now, call, prevCall>>
  /\ IF UserByEmail(req.email) # {}
     THEN /\ resp' = Plain("inviteUser", 400, req.caller, req.sub, NoId)
          /\ req' = IdleReq
     ELSE /\ resp' = resp
          /\ req' = [req EXCEPT !.pc = "count"]

\* upgradeInfo as inviteUser builds it
UpgradeInfo(r, newPricing, newTotal) ==
  [previousLicenses |-> r.loadedLicenses,
   newLicenses |-> getMaxLicensesForTier(newPricing.tierMin, newTotal),
   actualUsers |-> newTotal,
   previousTier |-> r.loadedTier,
   newTier |-> getTierLabel(newPricing.tierMin),
   previousPrice |-> r.loadedAmount,
   newPrice |-> newPricing.totalPrice,
   priceDifference |-> newPricing.totalPrice - r.loadedAmount]

\* The upgrade test of inviteUser with >= in place of >.
needsUpgradeOffByOne(newTotal, numLicenses) == newTotal >= numLicenses

\* if (newTotal > subscription.numLicenses)
needsUpgrade(newTotal, numLicenses) == newTotal > numLicenses

\* User.countDocuments(...), newTotal and the decision to upgrade
inviteCount ==
  /\ req.pc = "count"
  /\ UNCHANGED <<users, subs, sessions, now, call, prevCall>>
  /\ LET userCount == TenantCount(req.caller)
         newTotal == userCount + 1
         newPricing == calculatePrice(newTotal, req.loadedInterval)
     IN IF ~needsUpgrade(newTotal, req.loadedLicenses)
        THEN /\ resp' = resp
             /\ req' = [req EXCEPT !.pc = "saveUser", !.userCount = userCount,
                           !.newTotal = newTotal]
        ELSE IF newPricing.kind # "ok"
        THEN /\ resp' = Response("inviteUser", 500, req.caller, req.sub, NoId,
                                 newTotal, FALSE, FALSE, NoInfo)
             /\ req' = IdleReq
        ELSE /\ resp' = resp
             /\ req' = [req EXCEPT !.pc = "saveSubscription",
                           !.userCount = userCount, !.newTotal = newTotal,
                           !.upgradeInfo = UpgradeInfo(req, newPricing, newTotal)]

\* The write of the upgraded subscription skipped (subscription.save() lost).
saveUpgradeSkipped(sub, newTotal, interval) == sub

\* The four assignments of the auto-upgrade followed by subscription.save():
\* the stored document with the modified paths written.
saveUpgrade(sub, newTotal, interval) ==
  LET newPricing == calculatePrice(newTotal, interval) IN
  [sub EXCEPT !.numLicenses = getMaxLicensesForTier(newPricing.tierMin, newTotal),
              !.pricePerLicense = newPricing.pricePerLicense,
              !.pricing_tier = getTierLabel(newPricing.tierMin),
              !.billing_amount = newPricing.totalPrice]

inviteSaveSubscription ==
  /\ req.pc = "saveSubscription"
  /\ UNCHANGED <<users, sessions, now, resp, call, prevCall>>
  /\ subs' = [subs EXCEPT ![req.sub] =
                 saveUpgrade(subs[req.sub], req.newTotal, req.loadedInterval)]
  /\ req' = [req EXCEPT !.pc = "saveUser", !.subscriptionUpgraded = TRUE]

\* new User({...}).save(); the unique index on email rejects a duplicate
inviteSaveUser ==
  /\ req.pc = "saveUser"
  /\ UNCHANGED <<subs, sessions, now, call, prevCall>>
  /\ IF UserByEmail(req.email) # {}
     THEN /\ resp' = Response("inviteUser", 500, req.caller, req.sub, NoId,
                              req.newTotal, req.subscriptionUpgraded, FALSE, NoInfo)
          /\ req' = IdleReq
          /\ users' = users
     ELSE /\ FreeUserIds # {}
          /\ LET id == Min(FreeUserIds) IN
             /\ users' = [users EXCEPT ![id] =
                  [exists |-> TRUE, email |-> req.email, role |-> "user",
                   is_company_admin |-> FALSE, can_invite |-> FALSE,
                   invited_by |-> req.caller, subscription_id |-> NoId,
                   is_active |-> FALSE, email_verified |-> FALSE,
                   invitation_token |-> TRUE, workplace |-> req.workplace,
                   created_at |-> now, token_issued |-> FALSE,
                   password |-> "temp", verification_token |-> FALSE,
                   reset_password_token |-> FALSE,
                   reset_password_expires |-> NullDate,
                   id_used |-> TRUE]]
             /\ req' = [req EXCEPT !.pc = "sendEmail", !.newUser = id]
          /\ resp' = resp

\* emailService.sendInvitationEmail resolved
inviteEmailSent ==
  /\ req.pc = "sendEmail"
  /\ UNCHANGED <<users, subs, sessions, now, call, prevCall>>
  /\ resp' = Response("inviteUser", 200, req.caller, req.sub, req.newUser,
                      req.newTotal, req.subscriptionUpgraded,
                      req.subscriptionUpgraded,
                      IF req.subscriptionUpgraded THEN req.upgradeInfo ELSE NoInfo)
  /\ req' = IdleReq

\* emailService.sendInvitationEmail rejected: the catch block is entered
inviteEmailFailed ==
  /\ req.pc = "sendEmail"
  /\ UNCHANGED <<users, subs, sessions, now, resp, call, prevCall>>
  /\ req' = [req EXCEPT !.pc = "rollback"]

\* The catch block answering without deleting the user.
rollbackUserKept(us, id) == us

\* User.findByIdAndDelete(newUser._id)
rollbackUser(us, id) == [us EXCEPT ![id] = DeletedUser]

inviteRollback ==
  /\ req.pc = "rollback"
  /\ UNCHANGED <<subs, sessions, now, call, prevCall>>
  /\ users' = rollbackUser(users, req.newUser)
  /\ resp' = Response("inviteUser", 500, req.caller, req.sub, req.newUser,
                      req.newTotal, req.subscriptionUpgraded, FALSE, NoInfo)
  /\ req' = IdleReq

\* A second POST /api/clinic/invite that goes through: the whole handler,
\* from the load of the caller to the 200 after the email is sent, with no
\* other request handled between its awaits.
inviteWhole(caller, email) ==
  /\ authenticate(caller)
  /\ requireCompanyAdmin(caller)
  /\ users[caller].is_company_admin \/ users[caller].can_invite
  /\ users[caller].subscription_id # NoId
  /\ subs[users[caller].subscription_id].exists
  /\ UserByEmail(email) = {}
  /\ FreeUserIds # {}
  /\ UNCHANGED <<sessions, now, req, call, prevCall>>
  /\ LET sid == users[caller].subscription_id
         loaded == [IdleReq EXCEPT !.caller = caller, !.email = email, !.sub = sid,
                                   !.loadedLicenses = subs[sid].numLicenses,
                                   !.loadedAmount = subs[sid].billing_amount,
                                   !.loadedTier = subs[sid].pricing_tier,
                                   !.loadedInterval = subs[sid].billing_interval,
                                   !.workplace = users[caller].workplace]
         newTotal == TenantCount(caller) + 1
         upgrade == needsUpgrade(newTotal, loaded.loadedLicenses)
         newPricing == calculatePrice(newTotal, loaded.loadedInterval)
         id == Min(FreeUserIds)
     IN /\ upgrade => newPricing.kind = "ok"
        /\ subs' = IF upgrade
                   THEN [subs EXCEPT ![sid] =
                           saveUpgrade(subs[sid], newTotal, loaded.loadedInterval)]
                   ELSE subs
        /\ users' = [users EXCEPT ![id] =
             [exists |-> TRUE, email |-> email, role |-> "user",
              is_company_admin |-> FALSE, can_invite |-> FALSE,
              invited_by |-> caller, subscription_id |-> NoId,
              is_active |-> FALSE, email_verified |-> FALSE,
              invitation_token |-> TRUE, workplace |-> loaded.workplace,
              created_at |-> now, token_issued |-> FALSE,
              password |-> "temp", verification_token |-> FALSE,
              reset_password_token |-> FALSE,
              reset_password_expires |-> NullDate, id_used |-> TRUE]]
        /\ resp' = Response("inviteUser", 200, caller, sid, id, newTotal,
                            upgrade, upgrade,
                            IF upgrade THEN UpgradeInfo(loaded, newPricing, newTotal)
                            ELSE NoInfo)

\* ------------------------------------------------- Subscription (the model)
\* hasAccess with the period test >= in place of >.
hasAccessStrict(status, current_period_end, at) ==
  /\ status \in {"active", "trialing"}
  /\ ~(current_period_end # NullDate /\ at >= current_period_end)

\* subscriptionSchema.methods.hasAccess, `at` being new Date()
hasAccess(status, current_period_end, at) ==
  /\ status \in {"active", "trialing"}
  /\ ~(current_period_end # NullDate /\ at > current_period_end)

SubHasAccess(sub) == hasAccess(sub.status, sub.current_period_end, now)

\* cancel taking effect at the end of the period: the status is kept.
cancelAtPeriodEnd(sub, cancelledBy) ==
  [sub EXCEPT !.cancelled_at = now, !.cancelled_by = cancelledBy]

\* subscriptionSchema.methods.cancel
cancel(sub, cancelledBy) ==
  [sub EXCEPT !.status = "cancelled", !.cancelled_at = now,
              !.cancelled_by = cancelledBy]

\* reactivate starting a fresh period as well.
reactivateRenewing(sub) ==
  [sub EXCEPT !.status = "active", !.cancelled_at = NullDate,
              !.cancelled_by = NoId,
              !.current_period_end = now + DefaultExtendDays * SecondsPerDay]

reactivate(sub) ==
  [sub EXCEPT !.status = "active", !.cancelled_at = NullDate,
              !.cancelled_by = NoId]

\* extend(days); last_payment_date and next_payment_date are not modelled
extend(sub, days) ==
  [sub EXCEPT !.current_period_end = @ + days * SecondsPerDay]

\* ------------------------------------------------- subscription controller
\* "Check if user owns this subscription or is admin"
MayManage(caller, sid) ==
  subs[sid].user_id = caller \/ users[caller].role = "super_admin"

\* The shared head of the handlers taking :id: 404, 403 or go on (0).
ManageCode(caller, sid) ==
  IF ~subs[sid].exists THEN 404
  ELSE IF ~MayManage(caller, sid) THEN 403
  ELSE 0

\* DELETE /api/subscriptions/:id
cancelSubscription(caller, sid) ==
  /\ authenticate(caller)
  /\ UNCHANGED <<users, sessions, now, req, call, prevCall>>
  /\ IF ManageCode(caller, sid) # 0
     THEN /\ resp' = Plain("cancelSubscription", ManageCode(caller, sid), caller, sid, NoId)
          /\ subs' = subs
     ELSE /\ subs' = [subs EXCEPT ![sid] = cancel(subs[sid], caller)]
          /\ resp' = Plain("cancelSubscription", 200, caller, sid, NoId)

\* POST /api/subscriptions/:id/reactivate
reactivateSubscription(caller, sid) ==
  /\ authenticate(caller)
  /\ UNCHANGED <<users, sessions, now, req, call, prevCall>>
  /\ IF ManageCode(caller, sid) # 0
     THEN /\ resp' = Plain("reactivateSubscription", ManageCode(caller, sid), caller, sid, NoId)
          /\ subs' = subs
     ELSE /\ subs' = [subs EXCEPT ![sid] = reactivate(subs[sid])]
          /\ resp' = Plain("reactivateSubscription", 200, caller, sid, NoId)

\* POST /api/subscriptions/:id/extend; days = 0 stands for an absent field
extendSubscription(caller, sid, days) ==
  /\ authenticate(caller)
  /\ UNCHANGED <<users, sessions, now, req, call, prevCall>>
  /\ IF ManageCode(caller, sid) # 0
     THEN /\ resp' = Plain("extendSubscription", ManageCode(caller, sid), caller, sid, NoId)
          /\ subs' = subs
     ELSE LET extensionDays == IF days = 0 THEN DefaultExtendDays ELSE days IN
          /\ subs[sid].current_period_end + extensionDays * SecondsPerDay <= MaxPeriodEnd
          /\ subs' = [subs EXCEPT ![sid] = extend(subs[sid], extensionDays)]
          /\ resp' = Plain("extendSubscription", 200, caller, sid, NoId)

\* A recompute that also ends the trial.
RecomputedEndsTrial(sub, pricing, count) ==
  [sub EXCEPT !.numLicenses = getMaxLicensesForTier(pricing.tierMin, count),
              !.pricePerLicense = pricing.pricePerLicense,
              !.pricing_tier = getTierLabel(pricing.tierMin),
              !.billing_amount = pricing.totalPrice,
              !.is_trial = FALSE]

\* The tier fields every recompute writes from calculatePrice and the resolver.
Recomputed(sub, pricing, count) ==
  [sub EXCEPT !.numLicenses = getMaxLicensesForTier(pricing.tierMin, count),
              !.pricePerLicense = pricing.pricePerLicense,
              !.pricing_tier = getTierLabel(pricing.tierMin),
              !.billing_amount = pricing.totalPrice]

\* PUT /api/subscriptions/:id/licenses
upgradeLicenses(caller, sid, numLicenses) ==
  /\ authenticate(caller)
  /\ UNCHANGED <<users, sessions, now, req, call, prevCall>>
  /\ LET pricing == calculatePrice(numLicenses, subs[sid].billing_interval)
         code == IF numLicenses = 0 \/ numLicenses < 1 THEN 400
                 ELSE IF ManageCode(caller, sid) # 0 THEN ManageCode(caller, sid)
                 ELSE IF pricing.kind = "throw" THEN 500
                 ELSE IF pricing.kind = "null" THEN 400
                 ELSE 200
     IN IF code # 200
        THEN /\ resp' = Response("upgradeLicenses", code, caller, sid, NoId,
                                 numLicenses, FALSE, FALSE, NoInfo)
             /\ subs' = subs
        ELSE /\ subs' = [subs EXCEPT ![sid] = Recomputed(subs[sid], pricing, numLicenses)]
             /\ resp' = Response("upgradeLicenses", 200, caller, sid, NoId,
                                 numLicenses, TRUE, FALSE, NoInfo)

\* PUT /api/subscriptions/:id; numLicenses = 0, billing_interval = "" and
\* status = "" stand for absent fields (notes are not modelled)
updateSubscription(caller, sid, numLicenses, billing_interval, status) ==
  /\ authenticate(caller)
  /\ UNCHANGED <<users, sessions, now, req, call, prevCall>>
  /\ LET recompute == numLicenses # 0 /\ numLicenses # subs[sid].numLicenses
         billingInterval == IF billing_interval = "" THEN subs[sid].billing_interval
                            ELSE billing_interval
         pricing == calculatePrice(numLicenses, billingInterval)
         code == IF ManageCode(caller, sid) # 0 THEN ManageCode(caller, sid)
                 ELSE IF recompute /\ pricing.kind = "throw" THEN 500
                 ELSE IF recompute /\ pricing.kind = "null" THEN 400
                 ELSE 200
         s1 == IF recompute THEN Recomputed(subs[sid], pricing, numLicenses)
               ELSE subs[sid]
         s2 == IF billing_interval # "" THEN [s1 EXCEPT !.billing_interval = billing_interval]
               ELSE s1
         s3 == IF status # "" THEN [s2 EXCEPT !.status = status] ELSE s2
     IN IF code # 200
        THEN /\ resp' = Response("updateSubscription", code, caller, sid, NoId,
                                 numLicenses, FALSE, FALSE, NoInfo)
             /\ subs' = subs
        ELSE /\ subs' = [subs EXCEPT ![sid] = s3]
             /\ resp' = Response("updateSubscription", 200, caller, sid, NoId,
                                 numLicenses, recompute, FALSE, NoInfo)

\* -------------------------------------------------------- admin controller
\* POST /api/admin/users/:userId/mark-subscription (all body fields present)
markSubscription(caller, userId, access_date, expiry_date, numLicenses, billing_amount, billing_interval, status) ==
  /\ authenticate(caller)
  /\ UNCHANGED <<sessions, now, req, call, prevCall>>
  /\ LET found == SubsOf(userId)
         sid == IF found = {} THEN NoId ELSE Min(found)
         pricing == calculatePrice(numLicenses, billing_interval)
         code == IF ~requireSuperAdmin(caller) THEN 403
                 ELSE IF userId \notin Existing THEN 404
                 ELSE IF users[userId].role = "super_admin" THEN 400
                 ELSE IF found = {} THEN 400
                 ELSE IF pricing.kind = "throw" THEN 500
                 ELSE IF pricing.kind = "null" THEN 400
                 ELSE 200
     IN IF code # 200
        THEN /\ resp' = Response("markSubscription", code, caller, sid, userId,
                                 numLicenses, FALSE, FALSE, NoInfo)
             /\ UNCHANGED <<users, subs>>
        ELSE /\ subs' = [subs EXCEPT ![sid] =
                  [Recomputed(subs[sid], pricing, numLicenses) EXCEPT
                     !.status = status, !.is_trial = FALSE,
                     !.current_period_start = access_date,
                     !.current_period_end = expiry_date,
                     !.billing_amount = billing_amount,
                     !.billing_interval = billing_interval]]
             /\ users' = [users EXCEPT ![userId].subscription_id = sid]
             /\ resp' = Response("markSubscription", 200, caller, sid, userId,
                                 numLicenses, TRUE, FALSE, NoInfo)

\* -------------------------------------------------------- createSubscription
\* POST /api/subscriptions: authenticate, subscriptionValidation.create, then
\* the handler.  numLicenses = 0, billing_interval = "" and trial_days = 0
\* stand for fields absent from the body.
createSubscription(caller, numLicenses, billing_interval, trial_days) ==
  /\ authenticate(caller)
  /\ UNCHANGED <<sessions, now, req, call, prevCall>>
  /\ LET licenseCount == IF numLicenses = 0 THEN 1 ELSE numLicenses
         billingInterval == IF billing_interval = "" THEN "monthly"
                            ELSE billing_interval
         pricing == calculatePrice(licenseCount, billingInterval)
         trialDays == IF trial_days = 0 THEN TrialDays ELSE trial_days
         code ==
           IF billing_interval \notin {"", "monthly", "yearly"} THEN 400
           ELSE IF trial_days # 0 /\ trial_days \notin 1..MaxTrialDays THEN 400
           ELSE IF SubsOf(caller) # {} THEN 400
           ELSE IF licenseCount < 1 THEN 400
           ELSE IF pricing.kind = "throw" THEN 500
           ELSE IF pricing.kind = "null" THEN 400
           ELSE 201
     IN IF code # 201
        THEN /\ resp' = Response("createSubscription", code, caller, NoId, caller,
                                 numLicenses, FALSE, FALSE, NoInfo)
             /\ UNCHANGED <<users, subs>>
        ELSE /\ FreeSubIds # {}
             /\ LET sid == Min(FreeSubIds)
                IN /\ subs' = [subs EXCEPT ![sid] =
                              NewSubscription(caller, pricing, licenseCount,
                                              now + trialDays * SecondsPerDay)]
                   /\ users' = [users EXCEPT ![caller].subscription_id = sid]
                   /\ resp' = Response("createSubscription", 201, caller, sid,
                                       caller, licenseCount, TRUE, FALSE, NoInfo)

\* createSubscription with an empty body, one action per part around its
\* first await: Subscription.findOne({ user_id }) and the 400 it may answer,
\* then the pricing, subscription.save() and the update of the user.
createFind(caller) ==
  /\ req.pc = "idle"
  /\ authenticate(caller)
  /\ UNCHANGED <<users, subs, sessions, now, call, prevCall>>
  /\ IF SubsOf(caller) # {}
     THEN /\ resp' = Plain("createSubscription", 400, caller, NoId, caller)
          /\ req' = req
     ELSE /\ resp' = resp
          /\ req' = [IdleReq EXCEPT !.pc = "createSave", !.caller = caller]

createSave ==
  /\ req.pc = "createSave"
  /\ FreeSubIds # {}
  /\ UNCHANGED <<sessions, now, call, prevCall>>
  /\ LET sid == Min(FreeSubIds)
         pricing == calculatePrice(1, "monthly")
     IN /\ subs' = [subs EXCEPT ![sid] =
                     NewSubscription(req.caller, pricing, 1,
                                     now + TrialDays * SecondsPerDay)]
        /\ users' = [users EXCEPT ![req.caller].subscription_id = sid]
        /\ resp' = Response("createSubscription", 201, req.caller, sid,
                            req.caller, 1, TRUE, FALSE, NoInfo)
        /\ req' = IdleReq

\* The copy of the handler in controllers/subscriptionController.js, the
\* module routes/subscriptions.js requires: no pricing, a trial of
\* trial_days || 15 days and billing_amount || 599.  plan_name is not
\* modelled; billing_amount = 0, billing_interval = "" and trial_days = 0
\* stand for fields absent from the body.
createSubscriptionPlan(caller, billing_amount, billing_interval, trial_days) ==
  /\ authenticate(caller)
  /\ UNCHANGED <<sessions, now, req, call, prevCall>>
  /\ LET trialDays == IF trial_days = 0 THEN PlanTrialDays ELSE trial_days
         code ==
           IF billing_interval \notin {"", "monthly", "yearly"} THEN 400
           ELSE IF trial_days # 0 /\ trial_days \notin 1..MaxTrialDays THEN 400
           ELSE IF SubsOf(caller) # {} THEN 400
           ELSE 201
     IN IF code # 201
        THEN /\ resp' = Plain("createSubscription", code, caller, NoId, caller)
             /\ UNCHANGED <<users, subs>>
        ELSE /\ FreeSubIds # {}
             /\ LET sid == Min(FreeSubIds)
                IN /\ subs' = [subs EXCEPT ![sid] =
                       [NoSub EXCEPT
                          !.exists = TRUE, !.id_used = TRUE, !.user_id = caller,
                          !.status = "active", !.is_trial = TRUE,
                          !.current_period_start = now,
                          !.current_period_end = now + trialDays * SecondsPerDay,
                          !.billing_amount = IF billing_amount = 0
                                             THEN PlanBillingAmount
                                             ELSE billing_amount,
                          !.billing_interval = IF billing_interval = ""
                                               THEN "monthly"
                                               ELSE billing_interval]]
                   /\ users' = [users EXCEPT ![caller].subscription_id = sid]
                   /\ resp' = Plain("createSubscription", 201, caller, sid, caller)

\* ----------------------------------------------------- subscription gate
\* The user whose subscription gates the caller's requests.
subscriptionOwnerId(caller) ==
  IF users[caller].is_company_admin THEN caller
  ELSE IF users[caller].invited_by # NoId THEN users[caller].invited_by
  ELSE caller

\* The gate always reading the caller's own subscription.
requireActiveSubscriptionOwnOnly(caller) ==
  LET found == {s \in SubsOf(caller) : subs[s].status \in {"trialing", "active"}}
  IN IF found = {} \/ ~SubHasAccess(subs[Min(found)]) THEN 402 ELSE 0

\* requireActiveSubscription: 402, or 0 when next() is called
requireActiveSubscription(caller) ==
  LET found == {s \in SubsOf(subscriptionOwnerId(caller)) :
                  subs[s].status \in {"trialing", "active"}}
  IN IF found = {} \/ ~SubHasAccess(subs[Min(found)]) THEN 402 ELSE 0

\* A request on a gated route as far as the gate: authenticate, then
\* requireActiveSubscription answering 402 or calling next() (200 here)
gatedRequest(caller) ==
  /\ authenticate(caller)
  /\ UNCHANGED <<users, subs, sessions, now, req, call, prevCall>>
  /\ resp' = Plain("gatedRequest",
                   IF requireActiveSubscription(caller) = 402 THEN 402 ELSE 200,
                   caller, NoId, NoId)

\* POST /api/sessions/start behind the gate: a Session owned by the caller
startSession(caller) ==
  /\ authenticate(caller)
  /\ UNCHANGED <<users, subs, now, req, call, prevCall>>
  /\ IF requireActiveSubscription(caller) = 402
     THEN /\ resp' = Plain("startSession", 402, caller, NoId, NoId)
          /\ sessions' = sessions
     ELSE /\ FreeSessionIds # {}
          /\ sessions' = [sessions EXCEPT ![Min(FreeSessionIds)] =
                            [exists |-> TRUE, user_id |-> caller,
                             has_template |-> FALSE]]
          /\ resp' = Plain("startSession", 201, caller, NoId, caller)

\* -------------------------------------------------- resource ownership gate
\* requireSessionAccess(sessionId): 404, 403, or 0 when next() is called
requireSessionAccess(caller, sessionId) ==
  IF ~sessions[sessionId].exists THEN 404
  ELSE IF users[caller].role = "super_admin" THEN 0
  ELSE IF sessions[sessionId].user_id # caller THEN 403
  ELSE 0

\* The access check of generateTemplate / regenerateTemplate on a resource
\* owned by `owner`: 403, or 0 when the handler goes on
templateAccess(caller, owner) ==
  LET hasAccessFlag ==
        \/ owner = caller
        \/ /\ users[caller].is_company_admin
           /\ owner \in Existing
           /\ users[owner].invited_by # NoId
           /\ users[owner].invited_by = caller
  IN IF ~hasAccessFlag /\ users[caller].role # "super_admin" THEN 403 ELSE 0

\* GET /api/templates/session/:sessionId behind requireSessionAccess
getSessionTemplates(caller, sessionId) ==
  /\ authenticate(caller)
  /\ UNCHANGED <<users, subs, sessions, now, req, call, prevCall>>
  /\ resp' = Plain("getSessionTemplates",
                   IF requireSessionAccess(caller, sessionId) = 0 THEN 200
                   ELSE requireSessionAccess(caller, sessionId),
                   caller, sessionId, NoId)

\* POST /api/templates/generate (the document service is taken to answer)
generateTemplate(caller, session_id) ==
  /\ authenticate(caller)
  /\ UNCHANGED <<users, subs, now, req, call, prevCall>>
  /\ LET code == IF requireActiveSubscription(caller) = 402 THEN 402
                 ELSE IF ~sessions[session_id].exists THEN 404
                 ELSE IF templateAccess(caller, sessions[session_id].user_id) = 403 THEN 403
                 ELSE 201
     IN /\ resp' = Plain("generateTemplate", code, caller, session_id, NoId)
        /\ sessions' = IF code = 201
                       THEN [sessions EXCEPT ![session_id].has_template = TRUE]
                       ELSE sessions

\* POST /api/templates/:id/regenerate; the template of session `session_id`,
\* whose user_id is the session owner's
regenerateTemplate(caller, session_id) ==
  /\ authenticate(caller)
  /\ UNCHANGED <<users, subs, sessions, now, req, call, prevCall>>
  /\ LET code == IF requireActiveSubscription(caller) = 402 THEN 402
                 ELSE IF ~sessions[session_id].exists
                         \/ ~sessions[session_id].has_template THEN 404
                 ELSE IF templateAccess(caller, sessions[session_id].user_id) = 403 THEN 403
                 ELSE 200
     IN resp' = Plain("regenerateTemplate", code, caller, session_id, NoId)

\* ------------------------------------------------------ invitation accepted
\* The age test with >= in place of >.
invitationExpiredStrict(created_at, at) ==
  at - created_at >= InvitationMaxAgeDays * SecondsPerDay

\* invitationAge > maxAge, `at` being Date.now()
invitationExpired(created_at, at) ==
  at - created_at > InvitationMaxAgeDays * SecondsPerDay

\* POST /api/auth/accept-invitation with the token of user `u` (each pending
\* user has its own random token) and a password of at least 6 characters
acceptInvitation(u) ==
  /\ UNCHANGED <<subs, sessions, now, req, call, prevCall>>
  /\ IF ~(u \in Existing /\ users[u].invitation_token)
     THEN /\ resp' = Plain("acceptInvitation", 400, NoId, NoId, u)
          /\ users' = users
     ELSE IF invitationExpired(users[u].created_at, now)
     THEN /\ resp' = Plain("acceptInvitation", 400, NoId, NoId, u)
          /\ users' = users
     ELSE IF users[u].invited_by \notin Existing
     THEN /\ users' = [users EXCEPT ![u].password = "chosen",
                                    ![u].is_active = TRUE,
                                    ![u].email_verified = TRUE,
                                    ![u].invitation_token = FALSE]
          /\ resp' = Plain("acceptInvitation", 404, NoId, NoId, u)
     ELSE /\ users' = [users EXCEPT ![u].password = "chosen",
                                    ![u].is_active = TRUE,
                                    ![u].email_verified = TRUE,
                                    ![u].invitation_token = FALSE,
                                    ![u].token_issued = TRUE]
          /\ resp' = Plain("acceptInvitation", 200, u, NoId, u)

\* ---------------------------------------------------------- updateUserStatus
\* PUT /api/clinic/users/:userId/status with action in activate / deactivate /
\* remove
\* The soft-detach replaced by the deletion of the document.
removeFromCompanyHard(userId) ==
  [users EXCEPT ![userId] = DeletedUser]

\* User.findByIdAndUpdate(userId, { invited_by: null, workplace: null,
\* is_company_admin: false, can_invite: false })
removeFromCompany(userId) ==
  [users EXCEPT ![userId].invited_by = NoId,
                ![userId].workplace = "",
                ![userId].is_company_admin = FALSE,
                ![userId].can_invite = FALSE]

updateUserStatus(caller, userId, action) ==
  /\ authenticate(caller)
  /\ UNCHANGED <<subs, sessions, now, req, call, prevCall>>
  /\ LET code ==
           IF ~requireCompanyAdmin(caller) THEN 403
           ELSE IF ~users[caller].is_company_admin THEN 403
           ELSE IF userId \notin Existing THEN 404
           ELSE IF users[userId].invited_by # NoId
                   /\ users[userId].invited_by # caller /\ userId # caller THEN 403
           ELSE IF action = "remove" /\ userId = caller THEN 400
           ELSE 200
         hasPendingInvitation ==
           /\ users[userId].invitation_token
           /\ ~users[userId].is_active
           /\ ~users[userId].email_verified
     IN /\ resp' = Plain("updateUserStatus", code, caller, NoId, userId)
        /\ users' =
             IF code # 200 THEN users
             ELSE IF action = "remove"
             THEN IF hasPendingInvitation
                  THEN [users EXCEPT ![userId] = DeletedUser]
                  ELSE removeFromCompany(userId)
             ELSE [users EXCEPT ![userId].is_active = (action = "activate")]

\* DELETE /api/admin/users/:userId
deleteUser(caller, userId) ==
  /\ authenticate(caller)
  /\ UNCHANGED <<sessions, now, req, call, prevCall>>
  /\ LET code == IF ~requireSuperAdmin(caller) THEN 403
                 ELSE IF userId \notin Existing THEN 404
                 ELSE IF users[userId].role = "super_admin" THEN 400
                 ELSE 200
         sid == IF userId \in Existing THEN users[userId].subscription_id ELSE NoId
     IN /\ resp' = Plain("deleteUser", code, caller, sid, userId)
        /\ users' = IF code = 200 THEN [users EXCEPT ![userId] = DeletedUser]
                    ELSE users
        /\ subs' = IF code = 200 /\ sid # NoId
                   THEN [subs EXCEPT ![sid] = DeletedSub] ELSE subs

\* ------------------------------------------------------------- delegation
\* The owner granting can_invite to one of its members.  The handler is not
\* among the sources (server.js mounts /api/users, whose routes are absent);
\* the flag is the one the User schema declares for delegation.
grantCanInvite(caller, userId) ==
  /\ authenticate(caller)
  /\ UNCHANGED <<subs, sessions, now, req, call, prevCall>>
  /\ LET code == IF ~users[caller].is_company_admin THEN 403
                 ELSE IF userId \notin Existing THEN 404
                 ELSE IF users[userId].invited_by # caller THEN 403
                 ELSE 200
     IN /\ resp' = Plain("grantCanInvite", code, caller, NoId, userId)
        /\ users' = IF code = 200 THEN [users EXCEPT ![userId].can_invite = TRUE]
                    ELSE users

\* ------------------------------------ direct calls of the pure functions
StatusInputs == Statuses \cup {"trialing"}
IntervalInputs == {"monthly", "yearly", "weekly", "currency", "vatIncluded"}
CountInputs == (-1)..MaxCount
DateInputs == {NullDate} \cup 0..2

\* prevCall keeps the calculatePrice call before the last one
callCalculatePrice(n, interval) ==
  /\ call' = [NoCall EXCEPT !.fn = "calculatePrice", !.n = n,
                            !.interval = interval,
                            !.price = calculatePrice(n, interval)]
  /\ prevCall' = IF call.fn = "calculatePrice" THEN call ELSE NoCall
  /\ UNCHANGED <<users, subs, sessions, now, req, resp>>

\* hasAccess() on a document with the given status and period end, at time `at`
callHasAccess(status, periodEnd, at) ==
  /\ call' = [NoCall EXCEPT !.fn = "hasAccess", !.status = status,
                            !.periodEnd = periodEnd, !.at = at,
                            !.access = hasAccess(status, periodEnd, at)]
  /\ prevCall' = NoCall
  /\ UNCHANGED <<users, subs, sessions, now, req, resp>>

\* ------------------------------------------------------------ specifications
\* The super admin and its subscription as seedSuperAdmin.js stores them (the
\* period of 100 years is cut to FarFuture).
SeededAdmin ==
  [NoUser EXCEPT !.exists = TRUE, !.email = MaxEmails + 1, !.role = "super_admin",
                 !.is_active = TRUE, !.email_verified = TRUE,
                 !.workplace = "CareNote", !.created_at = 0,
                 !.subscription_id = AdminSub, !.token_issued = TRUE,
                 !.password = "chosen", !.id_used = TRUE]

SeededSub ==
  [NoSub EXCEPT !.exists = TRUE, !.user_id = AdminId, !.status = "active",
                !.billing_interval = "yearly", !.current_period_start = 0,
                !.current_period_end = FarFuture, !.id_used = TRUE]

Init ==
  /\ users = [u \in AllUserIds |-> IF u = AdminId THEN SeededAdmin ELSE NoUser]
  /\ subs = [s \in AllSubIds |-> IF s = AdminSub THEN SeededSub ELSE NoSub]
  /\ sessions = [s \in SessionIds |-> NoSession]
  /\ now = 0
  /\ req = IdleReq
  /\ resp = NoResp
  /\ call = NoCall
  /\ prevCall = NoCall

\* The pure functions called directly on inputs drawn from bounded sets.
NextPure ==
  \/ \E n \in CountInputs, i \in IntervalInputs : callCalculatePrice(n, i)
  \/ \E st \in StatusInputs, pe \in DateInputs, at \in 0..2 : callHasAccess(st, pe, at)

SpecPure == Init /\ [][NextPure]_vars

\* Requests are handled one at a time: a handler starts when none is in flight.
Idle == req.pc = "idle"

inviteSteps ==
  \/ inviteFindEmail
  \/ inviteCount
  \/ inviteSaveSubscription
  \/ inviteSaveUser
  \/ inviteEmailSent
  \/ inviteEmailFailed
  \/ inviteRollback

\* Email addresses are interchangeable: a request names an address in use
\* or the first one that is not.
UsedEmails == {users[u].email : u \in Existing \cap UserIds}
FreshEmails == IF Emails \ UsedEmails = {} THEN {} ELSE {Min(Emails \ UsedEmails)}
EmailChoices == UsedEmails \cup FreshEmails

Owners == {u \in Existing \cap UserIds : users[u].is_company_admin}

\* Tenancy: registrations with 1 or 3 licenses, invitations that succeed,
\* collide or lose their email, acceptance and removal of members.
Next ==
  \/ Idle /\ \E e \in EmailChoices, n \in {0, 3}, i \in {"", "yearly"} :
               register(e, "", n, NullDate, i)
  \/ \E c \in AllUserIds, e \in EmailChoices : inviteLoad(c, e)
  \/ inviteSteps
  \/ Idle /\ \E u \in UserIds : acceptInvitation(u)
  \/ Idle /\ \E c \in UserIds, u \in UserIds : updateUserStatus(c, u, "remove")

Spec == Init /\ [][Next]_vars

\* Billing of one tenant: registration with any license count and interval,
\* the three explicit recomputes and the invitations' auto-upgrade.
NextBilling ==
  \/ Idle /\ Owners = {} /\
       \E e \in FreshEmails, n \in CountInputs, i \in {"", "yearly"} :
         register(e, "", n, NullDate, i)
  \/ Idle /\ \E c \in Owners, s \in SubIds, n \in CountInputs : upgradeLicenses(c, s, n)
  \/ Idle /\ \E c \in Owners, s \in SubIds, n \in CountInputs :
               updateSubscription(c, s, n, "", "")
  \/ Idle /\ \E u \in Owners, n \in CountInputs \ {0} :
               markSubscription(AdminId, u, 0, TrialSeconds, n, 1000, "yearly", "active")
  \/ \E c \in Owners, e \in FreshEmails : inviteLoad(c, e)
  \/ inviteSteps

SpecBilling == Init /\ [][NextBilling]_vars

\* Lifecycle of an owner's subscription: the trial (default or
\* client-supplied end), the clock, cancel / reactivate / extend by the owner
\* or the super admin, status updates, and the owner's gated requests.
NextLifecycle ==
  \/ Idle /\ \E d \in TickSteps : Tick(d)
  \/ Idle /\ Owners = {} /\
       \E e \in FreshEmails, t \in {NullDate, 1} : register(e, "", 0, t, "")
  \/ Idle /\ \E c \in AllUserIds, s \in SubIds : cancelSubscription(c, s)
  \/ Idle /\ \E c \in AllUserIds, s \in SubIds : reactivateSubscription(c, s)
  \/ Idle /\ \E c \in AllUserIds, s \in SubIds : extendSubscription(c, s, 0)
  \/ Idle /\ \E c \in Owners, s \in SubIds, st \in Statuses :
               updateSubscription(c, s, 0, "", st)
  \/ Idle /\ \E c \in AllUserIds : gatedRequest(c)

SpecLifecycle == Init /\ [][NextLifecycle]_vars

\* The subscription gate over a tenant: the owner's trial, the clock, status
\* updates, members invited, accepting and removed, the owner deleted by the
\* super admin, and gated requests by every user holding a token.
NextGate ==
  \/ Idle /\ \E d \in TickSteps : Tick(d)
  \/ Idle /\ Owners = {} /\
       \E e \in FreshEmails, t \in {NullDate, 1} : register(e, "", 0, t, "")
  \/ \E c \in Owners, e \in FreshEmails : inviteLoad(c, e)
  \/ inviteSteps
  \/ Idle /\ \E u \in UserIds : acceptInvitation(u)
  \/ Idle /\ \E c \in Owners, u \in UserIds : updateUserStatus(c, u, "remove")
  \/ Idle /\ \E c \in Owners, s \in SubIds, st \in Statuses :
               updateSubscription(c, s, 0, "", st)
  \/ Idle /\ \E u \in UserIds : deleteUser(AdminId, u)
  \/ Idle /\ \E c \in AllUserIds : gatedRequest(c)

SpecGate == Init /\ [][NextGate]_vars

\* Acceptance: one tenant, invitations sent at different times, the clock
\* moving by a second or by the lifetime of an invitation, tokens presented
\* (valid, expired, spent or unknown), and the owner deleted by the super admin.
NextAccept ==
  \/ Idle /\ \E d \in {1, InvitationMaxAgeDays * SecondsPerDay} : Tick(d)
  \/ Idle /\ Owners = {} /\ \E e \in FreshEmails : register(e, "", 0, NullDate, "")
  \/ \E c \in Owners, e \in FreshEmails : inviteLoad(c, e)
  \/ inviteSteps
  \/ Idle /\ \E u \in UserIds : acceptInvitation(u)
  \/ Idle /\ \E u \in Owners : deleteUser(AdminId, u)

SpecAccept == Init /\ [][NextAccept]_vars

\* Subscription holders: one tenant, its members invited and accepting,
\* subscriptions created by every user holding a token and marked by the
\* super admin.
NextHolders ==
  \/ Idle /\ Owners = {} /\ \E e \in FreshEmails : register(e, "", 0, NullDate, "")
  \/ \E c \in Owners, e \in FreshEmails : inviteLoad(c, e)
  \/ inviteSteps
  \/ Idle /\ \E u \in UserIds : acceptInvitation(u)
  \/ Idle /\ \E c \in UserIds, n \in {0, 3}, i \in {"", "weekly"} :
               createSubscription(c, n, i, 0)
  \/ Idle /\ \E u \in UserIds :
               markSubscription(AdminId, u, 0, TrialSeconds, 1, 559, "monthly", "active")

SpecHolders == Init /\ [][NextHolders]_vars

\* Profiles: one tenant whose owner invites members while the owner and
\* the members that accepted update their profiles; a profile update is
\* handled whether or not an invitation is in flight.
Workplaces == {"", "clinic", "annex"}

NextProfile ==
  \/ Idle /\ Owners = {} /\ \E e \in FreshEmails : register(e, "", 0, NullDate, "")
  \/ \E c \in Owners, e \in FreshEmails : inviteLoad(c, e)
  \/ inviteSteps
  \/ Idle /\ \E u \in UserIds : acceptInvitation(u)
  \/ \E c \in UserIds, w \in Workplaces : updateProfile(c, w)

SpecProfile == Init /\ [][NextProfile]_vars

\* Tenants side by side: owners registering, members invited, accepting and
\* removed, and every user holding a token asking to activate, deactivate or
\* remove every other.
StatusActions == {"activate", "deactivate", "remove"}

NextTenants ==
  \/ Idle /\ \E e \in FreshEmails : register(e, "", 0, NullDate, "")
  \/ \E c \in Owners, e \in FreshEmails : inviteLoad(c, e)
  \/ inviteSteps
  \/ Idle /\ \E u \in UserIds : acceptInvitation(u)
  \/ Idle /\ \E c \in UserIds, u \in UserIds, a \in StatusActions :
               updateUserStatus(c, u, a)

SpecTenants == Init /\ [][NextTenants]_vars

\* Creation of subscriptions: registrations with and without a trial end,
\* and, by the members that accepted, POST /api/subscriptions as either copy
\* of its handler serves it, with and without trial_days, as the clock moves.
NextCreate ==
  \/ Idle /\ \E d \in TickSteps : Tick(d)
  \/ Idle /\ Owners = {} /\
       \E e \in FreshEmails, t \in {NullDate, 2 * TrialSeconds} : register(e, "", 0, t, "")
  \/ \E c \in Owners, e \in FreshEmails : inviteLoad(c, e)
  \/ inviteSteps
  \/ Idle /\ \E u \in UserIds : acceptInvitation(u)
  \/ Idle /\ \E c \in UserIds, td \in {0, 1} : createSubscription(c, 0, "", td)
  \/ Idle /\ \E c \in UserIds, td \in {0, 1} : createSubscriptionPlan(c, 0, "", td)

SpecCreate == Init /\ [][NextCreate]_vars

\* Two POST /api/subscriptions of one user: one handled step by step, the
\* other handled whole, before, after or between the steps of the first.
NextTwoCreates ==
  \/ Idle /\ Owners = {} /\ \E e \in FreshEmails : register(e, "", 0, NullDate, "")
  \/ \E c \in Owners, e \in FreshEmails : inviteLoad(c, e)
  \/ inviteSteps
  \/ Idle /\ \E u \in UserIds : acceptInvitation(u)
  \/ \E c \in UserIds : createFind(c)
  \/ createSave
  \/ req.pc \in {"idle", "createSave"} /\ \E c \in UserIds : createSubscription(c, 0, "", 0)

SpecTwoCreates == Init /\ [][NextTwoCreates]_vars

\* Upgrades: one owner, on monthly or yearly billing, whose subscription is
\* cancelled and reactivated as time passes, and license counts of every
\* kind sent to PUT /api/subscriptions/:id/licenses by every user.
UpgradeCounts == {-1, 0, 1, 3, 5, 10}

NextUpgrade ==
  \/ Idle /\ \E d \in TickSteps : Tick(d)
  \/ Idle /\ Owners = {} /\
       \E e \in FreshEmails, i \in {"", "yearly"} : register(e, "", 0, NullDate, i)
  \/ Idle /\ \E c \in Owners, s \in SubIds : cancelSubscription(c, s)
  \/ Idle /\ \E c \in Owners, s \in SubIds : reactivateSubscription(c, s)
  \/ Idle /\ \E c \in AllUserIds, s \in SubIds, n \in UpgradeCounts :
               upgradeLicenses(c, s, n)

SpecUpgrade == Init /\ [][NextUpgrade]_vars

\* Two invitations of one owner: one handled await by await, the other
\* handled whole before, after or between the steps of the first.
NextTwoInvites ==
  \/ Idle /\ Owners = {} /\
       \E e \in FreshEmails, n \in {0, 3}, i \in {"", "yearly"} :
         register(e, "", n, NullDate, i)
  \/ Idle /\ \E u \in UserIds : acceptInvitation(u)
  \/ \E c \in Owners, e \in FreshEmails : inviteLoad(c, e)
  \/ inviteSteps
  \/ \E c \in Owners, e \in Emails \ (UsedEmails \cup {req.email}) : inviteWhole(c, e)

SpecTwoInvites == Init /\ [][NextTwoInvites]_vars

\* Delegation: one tenant whose owner invites members and grants can_invite,
\* and invitations attempted by every user holding a token.
NextDelegation ==
  \/ Idle /\ Owners = {} /\ \E e \in FreshEmails : register(e, "", 0, NullDate, "")
  \/ \E c \in AllUserIds, e \in FreshEmails : inviteLoad(c, e)
  \/ inviteSteps
  \/ Idle /\ \E u \in UserIds : acceptInvitation(u)
  \/ Idle /\ \E c \in Owners, u \in UserIds : grantCanInvite(c, u)

SpecDelegation == Init /\ [][NextDelegation]_vars

\* Resources: sessions started by owners and accepted members, templates
\* generated from them, and the three entry points that guard them.
NextResource ==
  \/ Idle /\ \E e \in FreshEmails : register(e, "", 0, NullDate, "")
  \/ \E c \in Owners, e \in FreshEmails : inviteLoad(c, e)
  \/ inviteSteps
  \/ Idle /\ \E u \in UserIds : acceptInvitation(u)
  \/ Idle /\ \E c \in Owners, u \in UserIds : updateUserStatus(c, u, "remove")
  \/ Idle /\ \E c \in UserIds : startSession(c)
  \/ Idle /\ \E c \in AllUserIds, s \in SessionIds : getSessionTemplates(c, s)
  \/ Idle /\ \E c \in AllUserIds, s \in SessionIds : generateTemplate(c, s)
  \/ Idle /\ \E c \in AllUserIds, s \in SessionIds : regenerateTemplate(c, s)

SpecResource == Init /\ [][NextResource]_vars

\* The scenario: one owner registering with 1 license, billed monthly, whose
\* invitations all go out, while time passes and members accept.
NextScenario ==
  \/ Idle /\ \E d \in TickSteps : Tick(d)
  \/ Idle /\ Owners = {} /\ \E e \in FreshEmails : register(e, "", 1, NullDate, "monthly")
  \/ \E c \in Owners, e \in FreshEmails : inviteLoad(c, e)
  \/ inviteFindEmail
  \/ inviteCount
  \/ inviteSaveSubscription
  \/ inviteSaveUser
  \/ inviteEmailSent
  \/ Idle /\ \E u \in UserIds : acceptInvitation(u)

SpecScenario == Init /\ [][NextScenario]_vars

\* ------------------------------------------------------------------ claims
Intervals == {"monthly", "yearly"}

TiersOf(interval) == IF interval = "yearly" THEN YearlyTiers ELSE MonthlyTiers

\* The tier with the largest minLicenses that is <= n (n >= 1).
LargestTierBelow(ts, n) ==
  CHOOSE i \in 1..Len(ts) :
    /\ ts[i].minLicenses <= n
    /\ \A j \in 1..Len(ts) :
         ts[j].minLicenses <= n => ts[j].minLicenses <= ts[i].minLicenses

\* C1: for every integer license count n and interval, calculatePrice(n,
\* interval) returns null when n < 1 or the interval is neither 'monthly' nor
\* 'yearly'; otherwise it selects the tier with the largest minLicenses <= n
\* and returns totalPrice = pricePerLicense * n (monthly) or
\* pricePerLicense * n * 12 (yearly); calculatePrice(5, 'yearly') is tier 5+,
\* 428 per license, 25680 in total.
C1_CalculatePriceContract ==
  call.fn = "calculatePrice" =>
    IF call.n < 1 \/ call.interval \notin Intervals
    THEN call.price.kind = "null"
    ELSE LET ts == TiersOf(call.interval)
             t  == ts[LargestTierBelow(ts, call.n)]
         IN /\ call.price.kind = "ok"
            /\ call.price.tierMin = t.minLicenses
            /\ call.price.pricePerLicense = t.pricePerLicense
            /\ call.price.numLicenses = call.n
            /\ call.price.interval = call.interval
            /\ call.price.totalPrice =
                 IF call.interval = "yearly" THEN t.pricePerLicense * call.n * 12
                 ELSE t.pricePerLicense * call.n
            /\ (call.n = 5 /\ call.interval = "yearly") =>
                 /\ getTierLabel(call.price.tierMin) = "5+"
                 /\ call.price.pricePerLicense = 428
                 /\ call.price.totalPrice = 25680

\* C2: tier monotonicity: for a fixed interval and valid license counts
\* n1 < n2 (both >= 1), the price per license at n1 is at least the price per
\* license at n2.
C2_TierMonotonicity ==
  ( /\ prevCall.fn = "calculatePrice" /\ call.fn = "calculatePrice"
    /\ prevCall.interval = call.interval /\ call.interval \in Intervals
    /\ 1 <= prevCall.n /\ prevCall.n < call.n )
  => /\ prevCall.price.kind = "ok" /\ call.price.kind = "ok"
     /\ prevCall.price.pricePerLicense >= call.price.pricePerLicense

\* Two consecutive monthly calls across the 3+ / 5+ boundary.
C2_Witness ==
  /\ prevCall.fn = "calculatePrice" /\ call.fn = "calculatePrice"
  /\ prevCall.interval = "monthly" /\ call.interval = "monthly"
  /\ prevCall.n = 4 /\ call.n = 5
  /\ prevCall.price.pricePerLicense > call.price.pricePerLicense

\* C4: hasAccess() is true if and only if status is 'active' (or 'trialing')
\* and current_period_end is null or now <= current_period_end: an active
\* subscription whose period ended a second ago has no access, one whose
\* period ends in a second has, and inactive, expired and cancelled
\* subscriptions have none whatever their period.
C4_HasAccessIff ==
  call.fn = "hasAccess" =>
    /\ call.access <=>
         /\ call.status \in {"active", "trialing"}
         /\ (call.periodEnd = NullDate \/ call.at <= call.periodEnd)
    /\ ( /\ call.status = "active" /\ call.periodEnd # NullDate
         /\ call.periodEnd = call.at - 1 ) => ~call.access
    /\ (call.status = "active" /\ call.periodEnd = call.at + 1) => call.access
    /\ call.status \in {"inactive", "expired", "cancelled"} => ~call.access

\* hasAccess() asked at the very second the period ends.
C4_Witness ==
  /\ call.fn = "hasAccess" /\ call.status = "active"
  /\ call.periodEnd # NullDate /\ call.periodEnd = call.at
  /\ call.access

\* The tier fields a recompute for `count` licenses must leave on `sub`.
TierFieldsFor(sub, count) ==
  LET pricing == calculatePrice(count, sub.billing_interval) IN
  /\ sub.numLicenses = getMaxLicensesForTier(pricing.tierMin, count)
  /\ sub.pricePerLicense = pricing.pricePerLicense
  /\ sub.pricing_tier = getTierLabel(pricing.tierMin)

\* C3: capacity invariant: immediately after any recompute of the tier
\* (registration, upgradeLicenses, updateSubscription with numLicenses,
\* markSubscription, the auto-upgrade of inviteUser) for a count c >= 1, the
\* stored numLicenses is getMaxLicensesForTier(tier.minLicenses, c) and is at
\* least c, and the stored pricing_tier is the label of the band holding c:
\* 1-2 '1+' (2), 3-4 '3+' (4), 5-9 '5+' (9), 10 and more '10+' (c).
C3_CapacityInvariant ==
  (Idle /\ resp.recomputed /\ resp.count >= 1) =>
    LET sub == subs[resp.sub]
        c   == resp.count
    IN /\ sub.exists
       /\ TierFieldsFor(sub, c)
       /\ c <= sub.numLicenses
       /\ c \in 1..2 => (sub.pricing_tier = "1+" /\ sub.numLicenses = 2)
       /\ c \in 3..4 => (sub.pricing_tier = "3+" /\ sub.numLicenses = 4)
       /\ c \in 5..9 => (sub.pricing_tier = "5+" /\ sub.numLicenses = 9)
       /\ c >= 10 => (sub.pricing_tier = "10+" /\ sub.numLicenses = c)

\* An invitation has just auto-upgraded the subscription.
C3_Witness ==
  /\ Idle /\ resp.op = "inviteUser" /\ resp.code = 200
  /\ resp.recomputed /\ resp.count = 3
  /\ subs[resp.sub].numLicenses = 4

\* The period of subscription s has elapsed.
Expired(s) ==
  /\ subs[s].exists
  /\ subs[s].current_period_end # NullDate
  /\ now > subs[s].current_period_end

\* The step is a completed cancel or reactivate of subscription s.
CancelOrReactivateOf(s) ==
  /\ resp'.op \in {"cancelSubscription", "reactivateSubscription"}
  /\ resp'.code = 200 /\ resp'.sub = s
  /\ now' = now

\* C5: reactivation never grants access past an expired period: on a
\* subscription whose current_period_end is already in the past, every cancel
\* and every reactivate leaves current_period_end unchanged and hasAccess()
\* false, and reactivate sets status back to 'active' and clears
\* cancelled_at and cancelled_by.
C5_ReactivateKeepsExpired ==
  [][ \A s \in SubIds :
        (Expired(s) /\ CancelOrReactivateOf(s)) =>
          /\ subs'[s].current_period_end = subs[s].current_period_end
          /\ ~hasAccess(subs[s].status, subs[s].current_period_end, now)
          /\ ~hasAccess(subs'[s].status, subs'[s].current_period_end, now')
          /\ resp'.op = "reactivateSubscription" =>
               /\ subs'[s].status = "active"
               /\ subs'[s].cancelled_at = NullDate
               /\ subs'[s].cancelled_by = NoId
          /\ resp'.op = "cancelSubscription" =>
               /\ subs'[s].status = "cancelled"
               /\ subs'[s].cancelled_by = resp'.caller ]_vars

\* A subscription reactivated after its period elapsed: active, not cancelled,
\* and without access.
C5_Witness ==
  /\ resp.op = "reactivateSubscription" /\ resp.code = 200
  /\ Expired(resp.sub)
  /\ subs[resp.sub].status = "active"
  /\ subs[resp.sub].cancelled_at = NullDate
  /\ ~SubHasAccess(subs[resp.sub])

\* The billing owner of a caller: the caller itself when it is an owner or a
\* solo user, the user that invited it otherwise.
BillingOwner(c) ==
  IF users[c].invited_by = NoId THEN c ELSE users[c].invited_by

\* The step is a gated request (it changes nothing but the response).
GatedRequestStep ==
  /\ resp'.op = "gatedRequest"
  /\ UNCHANGED <<users, subs, sessions, now, req>>

OwnershipRule(c, owner) ==
  \/ owner = c
  \/ /\ users[c].is_company_admin
     /\ owner \in Existing
     /\ users[owner].invited_by = c
  \/ users[c].role = "super_admin"

ResourceOps == {"getSessionTemplates", "generateTemplate", "regenerateTemplate"}

\* C7: resource ownership gate: an operation on a session or template
\* (requireSessionAccess, generateTemplate, regenerateTemplate) is allowed if
\* and only if the caller owns the resource, or is a tenant owner and the
\* resource's owner has invited_by equal to the caller's id, or is a super
\* admin; every other caller is refused, and every entry point applies the
\* same rule.
C7_OwnershipGate ==
  (Idle /\ resp.op \in ResourceOps /\ resp.code \notin {402, 404}) =>
    /\ resp.code \in {200, 201, 403}
    /\ resp.code \in {200, 201} <=>
         OwnershipRule(resp.caller, sessions[resp.sub].user_id)

\* The tier fields of `sub` are those of an upgrade to newTotal users.
UpgradedTo(sub, newTotal) ==
  /\ TierFieldsFor(sub, newTotal)
  /\ sub.billing_amount = calculatePrice(newTotal, sub.billing_interval).totalPrice

\* The step creates the record of an invited user.
InvitedUserCreated ==
  \E u \in UserIds : ~users[u].exists /\ users'[u].exists
                      /\ users'[u].invited_by # NoId

\* C8: auto-upgrade trigger and ordering in inviteUser: with newTotal = (users
\* with invited_by = owner) + 1 + 1, the subscription is modified if and only
\* if newTotal > subscription.numLicenses; the upgraded numLicenses,
\* pricePerLicense, pricing_tier and billing_amount, computed from
\* calculatePrice(newTotal, billing_interval), are persisted strictly before
\* the invited user's record is created, and the success response carries
\* subscriptionUpgraded = true with the before / after breakdown; otherwise
\* the subscription is left unchanged and subscriptionUpgraded = false.
C8_AutoUpgradeOrdering ==
  [][ LET sid == req.sub
          upgrade == req.newTotal > req.loadedLicenses
      IN
      \* the count and the decision
      /\ (req.pc = "count" /\ req'.pc \in {"saveUser", "saveSubscription"}) =>
           /\ req'.newTotal =
                Cardinality({u \in Existing : users[u].invited_by = req.caller}) + 1 + 1
           /\ req.loadedLicenses = subs[sid].numLicenses
           /\ req'.pc = "saveSubscription" <=> req'.newTotal > subs[sid].numLicenses
      \* the only step of the request that writes the subscription
      /\ (req.pc # "idle" /\ req.pc # "saveSubscription") => subs' = subs
      /\ req.pc = "saveSubscription" =>
           /\ upgrade
           /\ UpgradedTo(subs'[sid], req.newTotal)
           /\ \A t \in AllSubIds \ {sid} : subs'[t] = subs[t]
           /\ users' = users /\ UserByEmail(req.email) = {}
           /\ req'.pc = "saveUser"
      \* the user record comes after the decision and the write
      /\ (req.pc # "idle" /\ InvitedUserCreated) =>
           /\ req.pc = "saveUser"
           /\ req.subscriptionUpgraded <=> upgrade
           /\ upgrade => UpgradedTo(subs[sid], req.newTotal)
           /\ ~upgrade => /\ subs[sid].numLicenses = req.loadedLicenses
                          /\ subs[sid].billing_amount = req.loadedAmount
                          /\ subs[sid].pricing_tier = req.loadedTier
      \* the success response
      /\ (req.pc = "sendEmail" /\ req'.pc = "idle") =>
           /\ resp'.code = 200
           /\ resp'.subscriptionUpgraded <=> upgrade
           /\ upgrade =>
                /\ resp'.upgradeInfo.previousLicenses = req.loadedLicenses
                /\ resp'.upgradeInfo.newLicenses = subs[sid].numLicenses
                /\ resp'.upgradeInfo.actualUsers = req.newTotal
                /\ resp'.upgradeInfo.previousTier = req.loadedTier
                /\ resp'.upgradeInfo.newTier = subs[sid].pricing_tier
                /\ resp'.upgradeInfo.previousPrice = req.loadedAmount
                /\ resp'.upgradeInfo.newPrice = subs[sid].billing_amount
                /\ resp'.upgradeInfo.priceDifference =
                     subs[sid].billing_amount - req.loadedAmount
           /\ ~upgrade => resp'.upgradeInfo = NoInfo ]_vars

\* An invitation answered with subscriptionUpgraded = true, the invited user
\* stored and the subscription carrying the upgraded tier.
C8_Witness ==
  /\ Idle /\ resp.op = "inviteUser" /\ resp.code = 200
  /\ resp.subscriptionUpgraded
  /\ users[resp.user].exists /\ users[resp.user].invited_by = resp.caller
  /\ subs[resp.sub].numLicenses = resp.upgradeInfo.newLicenses
  /\ resp.upgradeInfo.previousLicenses < resp.upgradeInfo.actualUsers

\* The subscription a response concerns carries these tier fields.
Carries(r, tier, perLicense, amount, capacity) ==
  /\ subs[r.sub].pricing_tier = tier
  /\ subs[r.sub].pricePerLicense = perLicense
  /\ subs[r.sub].billing_amount = amount
  /\ subs[r.sub].numLicenses = capacity

\* C9: scenario trace: registering an owner with numLicenses = 1 and monthly
\* billing yields pricing_tier '1+', pricePerLicense 559, billing_amount 559
\* and capacity 2; the first successful invitation (total 2) performs no
\* upgrade; the second (total 3) upgrades to '3+', 528 per license,
\* billing_amount 1584 and capacity 4.
C9_ScenarioTrace ==
  Idle =>
    /\ (resp.op = "register" /\ resp.code = 201) =>
         /\ Carries(resp, "1+", 559, 559, 2)
         /\ subs[resp.sub].billing_interval = "monthly"
    /\ (resp.op = "inviteUser" /\ resp.code = 200 /\ resp.count = 2) =>
         /\ ~resp.subscriptionUpgraded
         /\ Carries(resp, "1+", 559, 559, 2)
    /\ (resp.op = "inviteUser" /\ resp.code = 200 /\ resp.count = 3) =>
         /\ resp.subscriptionUpgraded
         /\ resp.upgradeInfo.previousTier = "1+"
         /\ resp.upgradeInfo.newTier = "3+"
         /\ Carries(resp, "3+", 528, 1584, 4)

\* The second invitation of the scenario has been answered.
C9_Witness ==
  /\ Idle /\ resp.op = "inviteUser" /\ resp.code = 200 /\ resp.count = 3
  /\ TenantCount(resp.caller) = 3
  /\ subs[resp.sub].pricing_tier = "3+"

\* The response of an invitation whose email could not be sent.
EmailFailure ==
  Idle /\ resp.op = "inviteUser" /\ resp.code = 500 /\ resp.user # NoId

\* C10: email failure in inviteUser: when the operation returns with its
\* error, the user record created for the invitee no longer exists, an
\* auto-upgrade performed earlier in the request is still persisted
\* (numLicenses, pricePerLicense, pricing_tier and billing_amount keep their
\* upgraded values), and the tenant's member count is what it was before the
\* request.
C10_EmailFailureRollback ==
  EmailFailure =>
    /\ ~users[resp.user].exists
    /\ \A u \in Existing : users[u].invitation_token => u # resp.user
    /\ resp.recomputed => UpgradedTo(subs[resp.sub], resp.count)
    /\ TenantCount(resp.caller) = resp.count - 1

\* An invitation that upgraded the subscription and then lost its email.
C10_Witness ==
  /\ EmailFailure /\ resp.recomputed
  /\ resp.count = 3 /\ subs[resp.sub].numLicenses = 4
  /\ ~users[resp.user].exists

\* C11: inviting an email that already belongs to an existing user is
\* rejected as a conflict before any write: no user record is created and the
\* owner's subscription (numLicenses, pricePerLicense, pricing_tier,
\* billing_amount) is unchanged, even when the invitation would otherwise
\* have triggered an auto-upgrade.
C11_DuplicateEmailRejected ==
  [][ (req.pc = "findEmail" /\ UserByEmail(req.email) # {}) =>
        /\ resp'.op = "inviteUser" /\ resp'.code = 400
        /\ req'.pc = "idle"
        /\ users' = users /\ subs' = subs
        /\ subs[req.sub].numLicenses = req.loadedLicenses
        /\ subs[req.sub].billing_amount = req.loadedAmount
        /\ subs[req.sub].pricing_tier = req.loadedTier ]_vars

\* A rejected invitation of an address in use that would have needed an
\* upgrade: the tenant is at capacity and nothing was written.
C11_Witness ==
  /\ Idle /\ resp.op = "inviteUser" /\ resp.code = 400
  /\ users[resp.caller].is_company_admin
  /\ TenantCount(resp.caller) + 1 > subs[resp.sub].numLicenses
  /\ subs[resp.sub].pricing_tier = "1+"

\* The step takes an inviteUser request through the route's middleware and
\* the handler's checks of the caller: it is rejected or goes on.
InviteLoadStep ==
  /\ req.pc = "idle"
  /\ \/ req'.pc = "findEmail"
     \/ /\ req'.pc = "idle" /\ resp'.op = "inviteUser"
        /\ UNCHANGED <<users, subs, sessions, now>>

InviteLoadCaller == IF req'.pc = "findEmail" THEN req'.caller ELSE resp'.caller

\* C12: an invitation can be issued by a caller that is the owner
\* (is_company_admin) or that holds can_invite; any other caller is rejected
\* with Forbidden and neither the User store nor the subscription changes; a
\* caller holding can_invite without is_company_admin gets an invitation
\* through the clinic route.
C12_InvitePermission ==
  [][ InviteLoadStep =>
        LET c == InviteLoadCaller IN
        /\ (~users[c].is_company_admin /\ ~users[c].can_invite) =>
             /\ req'.pc = "idle" /\ resp'.code = 403
             /\ users' = users /\ subs' = subs
        /\ (users[c].can_invite /\ ~users[c].is_company_admin) =>
             /\ resp'.code # 403
             /\ req'.pc = "findEmail" ]_vars

\* The step is an acceptInvitation request.
AcceptStep ==
  /\ resp'.op = "acceptInvitation"
  /\ UNCHANGED <<subs, sessions, now, req>>

\* The token of u is that of a pending member whose record is at most 7 days old.
ValidInvitation(u) ==
  /\ u \in Existing /\ users[u].invitation_token
  /\ now - users[u].created_at <= InvitationMaxAgeDays * SecondsPerDay

\* C13: invitation acceptance: with the token of a pending member whose
\* record is at most 7 days old (and a password of at least 6 characters),
\* acceptInvitation sets is_active and email_verified and clears
\* invitation_token; with an unknown token, or one whose user record is older
\* than 7 days, it fails and the member stays pending; after one successful
\* acceptance the same token is no longer accepted.
C13_AcceptInvitation ==
  [][ AcceptStep =>
        LET u == resp'.user IN
        /\ ValidInvitation(u) =>
             /\ users'[u].exists
             /\ users'[u].is_active /\ users'[u].email_verified
             /\ ~users'[u].invitation_token
             /\ \A v \in AllUserIds \ {u} : users'[v] = users[v]
        /\ ~ValidInvitation(u) =>
             /\ resp'.code = 400
             /\ users' = users
        /\ (u \in Existing /\ users[u].is_active /\ ~users[u].invitation_token) =>
             resp'.code = 400 ]_vars

\* An invitation accepted on the last second of its seventh day.
C13_Witness ==
  /\ resp.op = "acceptInvitation" /\ resp.code = 200
  /\ users[resp.user].is_active /\ users[resp.user].email_verified
  /\ ~users[resp.user].invitation_token
  /\ now - users[resp.user].created_at = InvitationMaxAgeDays * SecondsPerDay

\* The member never accepted: token set, inactive, unverified.
NeverAccepted(u) ==
  users[u].invitation_token /\ ~users[u].is_active /\ ~users[u].email_verified

\* C14: removing a member (updateUserStatus with action 'remove'): a member
\* who never accepted is hard-deleted; any other member is soft-detached
\* (invited_by, workplace cleared, is_company_admin and can_invite false) and
\* its record persists; in both paths the subscriptions are unchanged, and
\* across every step of invitations and removals numLicenses never decreases.
C14_RemoveMember ==
  [][ /\ \A c \in UserIds, u \in UserIds :
           ( /\ updateUserStatus(c, u, "remove")
             /\ resp'.code = 200
             /\ users[u].invited_by = c ) =>
             /\ NeverAccepted(u) => users'[u] = DeletedUser
             /\ ~NeverAccepted(u) =>
                  /\ users'[u].exists
                  /\ users'[u] = [users[u] EXCEPT !.invited_by = NoId,
                                                  !.workplace = "",
                                                  !.is_company_admin = FALSE,
                                                  !.can_invite = FALSE]
             /\ \A v \in AllUserIds \ {u} : users'[v] = users[v]
             /\ subs' = subs
      /\ \A s \in SubIds : subs[s].exists =>
           subs'[s].exists /\ subs'[s].numLicenses >= subs[s].numLicenses ]_vars

\* An accepted member has been detached from a tenant whose capacity had
\* grown to hold it: the record persists, the capacity stays.
C14_Witness ==
  /\ Idle /\ resp.op = "updateUserStatus" /\ resp.code = 200
  /\ users[resp.user].exists /\ users[resp.user].is_active
  /\ users[resp.user].invited_by = NoId /\ ~users[resp.user].is_company_admin
  /\ users[resp.caller].is_company_admin
  /\ TenantCount(resp.caller) = 1
  /\ subs[users[resp.caller].subscription_id].numLicenses >= 2
  /\ subs[users[resp.caller].subscription_id].pricing_tier = "1+"

\* C15: in every reachable state a user with invited_by set holds no
\* subscription of its own: no Subscription has that user as user_id and the
\* user's subscription_id is null.
C15_InvitedHoldsNoSubscription ==
  \A u \in Existing :
    users[u].invited_by # NoId =>
      SubsOf(u) = {} /\ users[u].subscription_id = NoId

\* C16: in every state reached by registration followed by invitations
\* (successful or failed) and removals, once the request in flight has
\* completed, a subscription's billing_amount is pricePerLicense times the
\* tenant's member count (owner plus users with invited_by = owner), times 12
\* when billed yearly.
C16_BillingFollowsMembers ==
  Idle =>
    \A s \in SubIds :
      (subs[s].exists /\ subs[s].user_id \in Existing) =>
        subs[s].billing_amount =
          subs[s].pricePerLicense * TenantCount(subs[s].user_id)
            * (IF subs[s].billing_interval = "yearly" THEN 12 ELSE 1)

\* C17: in every reachable state every subscription has
\* current_period_end >= current_period_start.
C17_PeriodOrdered ==
  \A s \in AllSubIds :
    subs[s].exists => subs[s].current_period_end >= subs[s].current_period_start

\* The users with invited_by = owner.
MembersOf(owner) == {u \in Existing : users[u].invited_by = owner}

\* Every member of owner has the owner's workplace, in the next state.
WorkplaceSynced(owner) ==
  \A u \in AllUserIds :
    (users'[u].exists /\ users'[u].invited_by = owner) =>
      users'[u].workplace = users'[owner].workplace

\* C18: the member count used for tier resolution is the number of users
\* with invited_by = owner plus one; when a profile update by the owner
\* completes, every member has the owner's workplace; and when an invitation
\* by the owner completes after the owner's profile update completed, every
\* member still has it.
C18_CountAndWorkplaceSync ==
  [][ /\ (req.pc = "count" /\ req'.pc \in {"saveUser", "saveSubscription"}) =>
           req'.userCount = Cardinality(MembersOf(req.caller)) + 1
      /\ \A o \in UserIds :
           (users[o].is_company_admin /\ \E w \in Workplaces : updateProfile(o, w)) =>
             WorkplaceSynced(o)
      /\ ( /\ req.pc # "idle" /\ req'.pc = "idle"
           /\ resp.op = "updateProfile" /\ resp.caller = req.caller ) =>
             WorkplaceSynced(req.caller) ]_vars

\* The handlers that answer validation and conflict errors with 400.
ValidatingOps == {"register", "createSubscription", "upgradeLicenses", "inviteUser"}

\* C19: whenever register, createSubscription, upgradeLicenses or inviteUser
\* answers with a validation or conflict error (400: invalid license count or
\* billing interval, duplicate email, subscription already exists), the step
\* that answers leaves the User and Subscription stores as they were, and for
\* inviteUser the subscription is as the request loaded it.
C19_ErrorsBeforeWrites ==
  [][ ( /\ resp'.op \in ValidatingOps /\ resp'.code = 400
        /\ req'.pc = "idle" /\ now' = now /\ sessions' = sessions ) =>
        /\ users' = users
        /\ subs' = subs
        /\ req.pc # "idle" =>
             /\ subs[req.sub].numLicenses = req.loadedLicenses
             /\ subs[req.sub].billing_amount = req.loadedAmount ]_vars

\* C20: cross-tenant protection in updateUserStatus: a company admin's
\* activate, deactivate or remove request changes or deletes the target only
\* if the target is the caller or has invited_by equal to the caller; for
\* every other target the request answers 403 and the target is unchanged.
C20_CrossTenantProtection ==
  [][ \A c \in UserIds, u \in UserIds, a \in StatusActions :
        ( /\ updateUserStatus(c, u, a)
          /\ users[c].is_company_admin
          /\ u \in Existing
          /\ u # c /\ users[u].invited_by # c ) =>
          /\ resp'.code = 403
          /\ users'[u] = users[u] ]_vars

\* The subscription a 201 response names is new, active, on trial and ends
\* at `end`.
CreatedTrial(end) ==
  /\ resp'.code = 201 =>
       /\ ~subs[resp'.sub].exists /\ subs'[resp'.sub].exists
       /\ subs'[resp'.sub].status = "active"
       /\ subs'[resp'.sub].is_trial
       /\ subs'[resp'.sub].current_period_start = now
       /\ subs'[resp'.sub].current_period_end = end
  /\ resp'.code # 201 => subs' = subs

\* C21: every newly created subscription (by register or by POST
\* /api/subscriptions) starts with status 'active', is_trial true and
\* current_period_end = creation time + trialDays, trialDays being the trial
\* length of the request and 10 days when the request specifies none.
C21_NewSubscriptionTrial ==
  [][ /\ \A e \in Emails, t \in {NullDate, 2 * TrialSeconds} :
           register(e, "", 0, t, "") =>
             CreatedTrial(IF t = NullDate THEN now + TrialDays * SecondsPerDay ELSE t)
      /\ \A c \in UserIds, td \in {0, 1} :
           (createSubscription(c, 0, "", td) \/ createSubscriptionPlan(c, 0, "", td)) =>
             CreatedTrial(now + (IF td = 0 THEN TrialDays ELSE td) * SecondsPerDay)
      /\ \A sid \in SubIds : (~subs[sid].exists /\ subs'[sid].exists) =>
           resp'.code = 201 /\ resp'.sub = sid ]_vars

\* C22: in every reachable state each user owns at most one Subscription,
\* also after two createSubscription requests of the same user interleaved.
C22_OneSubscriptionPerUser ==
  \A u \in Existing : Cardinality(SubsOf(u)) <= 1

\* C23: upgradeLicenses recomputes exactly pricePerLicense, pricing_tier,
\* numLicenses and billing_amount from calculatePrice(licenseCount,
\* subscription.billing_interval) and the resolver, and leaves status,
\* is_trial, the period dates, cancelled_at and cancelled_by (and every other
\* document) unchanged; a request with licenseCount < 1 is rejected and
\* changes nothing.
C23_UpgradeFrame ==
  [][ (resp'.op = "upgradeLicenses" /\ now' = now) =>
        LET s == resp'.sub
            n == resp'.count
        IN
        /\ users' = users
        /\ n < 1 => (resp'.code = 400 /\ subs' = subs)
        /\ resp'.code # 200 => subs' = subs
        /\ resp'.code = 200 =>
             LET pricing == calculatePrice(n, subs[s].billing_interval) IN
             /\ pricing.kind = "ok"
             /\ subs'[s].pricePerLicense = pricing.pricePerLicense
             /\ subs'[s].pricing_tier = getTierLabel(pricing.tierMin)
             /\ subs'[s].numLicenses = getMaxLicensesForTier(pricing.tierMin, n)
             /\ subs'[s].billing_amount = pricing.totalPrice
             /\ subs'[s] = [subs[s] EXCEPT
                              !.pricePerLicense = subs'[s].pricePerLicense,
                              !.pricing_tier = subs'[s].pricing_tier,
                              !.numLicenses = subs'[s].numLicenses,
                              !.billing_amount = subs'[s].billing_amount]
             /\ \A t \in AllSubIds \ {s} : subs'[t] = subs[t] ]_vars

\* A cancelled trial subscription, its period over, has been upgraded to 5
\* licenses: capacity 9, and still cancelled and on trial.
C23_Witness ==
  /\ resp.op = "upgradeLicenses" /\ resp.code = 200 /\ resp.count = 5
  /\ subs[resp.sub].numLicenses = 9 /\ subs[resp.sub].pricing_tier = "5+"
  /\ subs[resp.sub].status = "cancelled" /\ subs[resp.sub].is_trial
  /\ subs[resp.sub].cancelled_at # NullDate
  /\ now > subs[resp.sub].current_period_end

\* C24: cancel(by) moves the subscription to 'cancelled' with cancelled_at =
\* now and cancelled_by = by and leaves every other field unchanged, also
\* when the subscription is already cancelled; a cancelled subscription has
\* no access, even with its period end in the future, and stays cancelled
\* until a reactivate or an explicit status update.
C24_CancelFrame ==
  [][ /\ (resp'.op = "cancelSubscription" /\ resp'.code = 200 /\ now' = now) =>
           LET s == resp'.sub IN
           /\ subs'[s] = [subs[s] EXCEPT !.status = "cancelled",
                                         !.cancelled_at = now,
                                         !.cancelled_by = resp'.caller]
           /\ \A t \in AllSubIds \ {s} : subs'[t] = subs[t]
           /\ ~SubHasAccess(subs'[s])
      /\ \A s \in SubIds :
           (subs[s].exists /\ subs[s].status = "cancelled") =>
             /\ ~SubHasAccess(subs[s])
             /\ subs'[s].status # "cancelled" =>
                  resp'.op \in {"reactivateSubscription", "updateSubscription"} ]_vars

\* The super admin has cancelled a subscription whose period still runs.
C24_Witness ==
  /\ resp.op = "cancelSubscription" /\ resp.code = 200 /\ resp.caller = AdminId
  /\ subs[resp.sub].status = "cancelled"
  /\ subs[resp.sub].cancelled_at = now /\ subs[resp.sub].cancelled_by = AdminId
  /\ now > subs[resp.sub].current_period_start
  /\ now < subs[resp.sub].current_period_end

\* C25: in every state reached by registrations followed by invitations,
\* acceptances and status updates handled one after the other, once the
\* request in flight has completed, a tenant's member count (owner plus
\* users with invited_by = owner) is at most the numLicenses of the owner's
\* subscription, and the available_licenses getClinicData reports is not
\* negative.
C25_MembersWithinCapacity ==
  Idle =>
    \A o \in Existing \cap UserIds :
      (users[o].subscription_id # NoId /\ subs[users[o].subscription_id].exists) =>
        /\ Cardinality(MembersOf(o)) + 1 <= subs[users[o].subscription_id].numLicenses
        /\ users[o].is_company_admin => available_licenses(o) >= 0

\* The third member of a tenant registered with one license has been invited:
\* capacity 4, one license available.
C25_Witness ==
  /\ Idle /\ resp.op = "inviteUser" /\ resp.code = 200
  /\ resp.subscriptionUpgraded
  /\ Cardinality(MembersOf(resp.caller)) = 2
  /\ subs[resp.sub].numLicenses = 4
  /\ available_licenses(resp.caller) = 1

\* C26: when invitations of one owner, interleaved at their awaits, have
\* completed successfully, the tenant's member count is at most the
\* numLicenses of the owner's subscription.
C26_InterleavedInvitesWithinCapacity ==
  (Idle /\ resp.op = "inviteUser" /\ resp.code = 200) =>
    Cardinality(MembersOf(resp.caller)) + 1 <= subs[resp.sub].numLicenses

\* C27: for each billing interval and license counts 1 <= n1 < n2 (n2 = n1 + 1
\* in particular, also across the tier boundaries 2->3, 4->5, 9->10),
\* calculatePrice(n2).totalPrice > calculatePrice(n1).totalPrice, and the
\* priceDifference an auto-upgrade to n2 reports over a billing_amount that
\* was computed for n1 is not negative.
C27_TotalPriceIncreasing ==
  ( /\ prevCall.fn = "calculatePrice" /\ call.fn = "calculatePrice"
    /\ prevCall.interval = call.interval /\ call.interval \in Intervals
    /\ 1 <= prevCall.n /\ prevCall.n < call.n )
  => /\ prevCall.price.kind = "ok" /\ call.price.kind = "ok"
     /\ call.price.totalPrice > prevCall.price.totalPrice
     /\ UpgradeInfo([IdleReq EXCEPT !.loadedAmount = prevCall.price.totalPrice],
                    call.price, call.n).priceDifference >= 0

\* Two consecutive yearly calls across the 5+ / 10+ boundary.
C27_Witness ==
  /\ prevCall.fn = "calculatePrice" /\ call.fn = "calculatePrice"
  /\ prevCall.interval = "yearly" /\ call.interval = "yearly"
  /\ prevCall.n = 9 /\ call.n = 10
  /\ prevCall.price.totalPrice = 46224 /\ call.price.totalPrice = 48000

\* ------------------------------------------------- login and e-mail tokens
\* parseInt(process.env.PASSWORD_RESET_EXPIRATION_HOURS || '1') hours
PasswordResetSeconds == 3600

\* What a caller can type as a password: the one the account holder chose, or
\* anything else.  The random temporary password of an invited user is shown
\* to nobody, so no caller can type it.
Passwords == {"chosen", "other"}

\* POST /api/auth/login
login(email, password) ==
  /\ UNCHANGED <<subs, sessions, now, req, call, prevCall>>
  /\ IF UserByEmail(email) = {}
     THEN /\ resp' = Plain("login", 401, NoId, NoId, NoId)
          /\ users' = users
     ELSE LET u == CHOOSE x \in UserByEmail(email) : TRUE IN
          IF users[u].password # password
          THEN /\ resp' = Plain("login", 401, NoId, NoId, u)
               /\ users' = users
          ELSE IF ~users[u].email_verified
          THEN /\ resp' = Plain("login", 401, NoId, NoId, u)
               /\ users' = users
          ELSE /\ resp' = Plain("login", 200, u, NoId, u)
               /\ users' = [users EXCEPT ![u].token_issued = TRUE]

\* POST /api/auth/verify-email with the verification token mailed to u
verifyEmail(u) ==
  /\ UNCHANGED <<subs, sessions, now, req, call, prevCall>>
  /\ IF ~(u \in Existing /\ users[u].verification_token
                         /\ ~users[u].email_verified)
     THEN /\ resp' = Plain("verifyEmail", 400, NoId, NoId, u)
          /\ users' = users
     ELSE /\ resp' = Plain("verifyEmail", 200, NoId, NoId, u)
          /\ users' = [users EXCEPT ![u].email_verified = TRUE,
                                    ![u].verification_token = FALSE]

\* POST /api/auth/resend-verification; sent is whether the mail went out
resendVerification(email, sent) ==
  /\ UNCHANGED <<subs, sessions, now, req, call, prevCall>>
  /\ IF UserByEmail(email) = {}
     THEN /\ resp' = Plain("resendVerification", 404, NoId, NoId, NoId)
          /\ users' = users
     ELSE LET u == CHOOSE x \in UserByEmail(email) : TRUE IN
          IF users[u].email_verified \/ ~users[u].is_active
          THEN /\ resp' = Plain("resendVerification", 400, NoId, NoId, u)
               /\ users' = users
          ELSE /\ resp' = Plain("resendVerification",
                                IF sent THEN 200 ELSE 500, NoId, NoId, u)
               /\ users' = [users EXCEPT ![u].verification_token = TRUE]

\* POST /api/auth/forgot-password; sent is whether the mail went out
forgotPassword(email, sent) ==
  /\ UNCHANGED <<subs, sessions, now, req, call, prevCall>>
  /\ IF UserByEmail(email) = {}
     THEN /\ resp' = Plain("forgotPassword", 200, NoId, NoId, NoId)
          /\ users' = users
     ELSE LET u == CHOOSE x \in UserByEmail(email) : TRUE IN
          IF sent
          THEN /\ resp' = Plain("forgotPassword", 200, NoId, NoId, u)
               /\ users' = [users EXCEPT
                    ![u].reset_password_token = TRUE,
                    ![u].reset_password_expires = now + PasswordResetSeconds]
          ELSE /\ resp' = Plain("forgotPassword", 500, NoId, NoId, u)
               /\ users' = [users EXCEPT
                    ![u].reset_password_token = FALSE,
                    ![u].reset_password_expires = NullDate]

\* POST /api/auth/reset-password with the reset token mailed to u
resetPassword(u) ==
  /\ UNCHANGED <<subs, sessions, now, req, call, prevCall>>
  /\ IF ~(u \in Existing /\ users[u].reset_password_token
                         /\ users[u].reset_password_expires > now)
     THEN /\ resp' = Plain("resetPassword", 400, NoId, NoId, u)
          /\ users' = users
     ELSE /\ resp' = Plain("resetPassword", 200, NoId, NoId, u)
          /\ users' = [users EXCEPT
               ![u].password = "chosen",
               ![u].reset_password_token = FALSE,
               ![u].reset_password_expires = NullDate]

\* The clock of the login specification stops after two reset lifetimes, and
\* its tenant has the owner and one member.
MaxResetClock == 2 * PasswordResetSeconds
MaxLoginUsers == 2

\* One tenant and the member it invites: the owner activates and deactivates
\* the member, and anybody uses the public e-mail verification, password
\* reset and login routes, as the clock moves.
NextLogin ==
  \/ Idle /\ now + PasswordResetSeconds <= MaxResetClock
          /\ Tick(PasswordResetSeconds)
  \/ Idle /\ Owners = {} /\ \E e \in FreshEmails : register(e, "", 0, NullDate, "")
  \/ Idle /\ Cardinality(Existing \cap UserIds) < MaxLoginUsers
          /\ \E c \in Owners, e \in FreshEmails : inviteWhole(c, e)
  \/ Idle /\ \E u \in UserIds : acceptInvitation(u)
  \/ Idle /\ \E c \in Owners, u \in UserIds, a \in {"activate", "deactivate"} :
               updateUserStatus(c, u, a)
  \/ Idle /\ \E e \in UsedEmails, p \in Passwords : login(e, p)
  \/ Idle /\ \E u \in UserIds : verifyEmail(u)
  \/ Idle /\ \E e \in UsedEmails, sent \in BOOLEAN : resendVerification(e, sent)
  \/ Idle /\ \E e \in UsedEmails, sent \in BOOLEAN : forgotPassword(e, sent)
  \/ Idle /\ \E u \in UserIds : resetPassword(u)

SpecLogin == Init /\ [][NextLogin]_vars

\* C28: a user created by invitation cannot log in before the invitation has
\* been accepted: while its invitation_token is still set (acceptInvitation
\* has not succeeded for it), email_verified is false and no login has issued
\* it a token, whatever verifyEmail, resendVerification, forgotPassword,
\* resetPassword and owner activate / deactivate operations were applied.
C28_NoLoginBeforeAcceptance ==
  \A u \in Existing :
    (users[u].invited_by # NoId /\ users[u].invitation_token) =>
      /\ ~users[u].email_verified
      /\ ~users[u].token_issued

\* C29: tenancy is a tree of depth 1 with no dangling parents: every user
\* with invited_by set references an existing user that is a company admin
\* and has no parent itself, whatever inviteUser, updateUserStatus and the
\* admin deleteUser did.
C29_TenancyTree ==
  \A u \in Existing :
    users[u].invited_by # NoId =>
      /\ users[u].invited_by \in Existing
      /\ users[users[u].invited_by].is_company_admin
      /\ users[users[u].invited_by].invited_by = NoId

\* C30: acceptInvitation is all-or-nothing: whenever it answers with an error
\* (unknown token, expired invitation, inviting owner not found), the invited
\* user's password, is_active, email_verified and invitation_token are
\* unchanged.
C30_AcceptAllOrNothing ==
  [][ (AcceptStep /\ resp'.code # 200) =>
        \A u \in AllUserIds :
          /\ users'[u].password = users[u].password
          /\ users'[u].is_active = users[u].is_active
          /\ users'[u].email_verified = users[u].email_verified
          /\ users'[u].invitation_token = users[u].invitation_token ]_vars
====
